---- MODULE Spec2Model ----
(***************************************************************************)
(* A model of the coal-blend dashboard (shahjoyal/view-bunker).            *)
(*                                                                         *)
(*  - the client-side NextBlendBinder of public/dashboard.js: the          *)
(*    per-bunker layer sequences built from a blend, the active-layer      *)
(*    pointer and countdown, the one-second tick and the                   *)
(*    'nextBlend:updated' events;                                          *)
(*  - the server of server.js: computeBlendMetrics and the blend store     *)
(*    behind POST /api/blend, PUT /api/blend/:id and GET /api/blend/latest.*)
(*                                                                         *)
(* JavaScript values.  null/undefined is the empty tuple Null; a number    *)
(* that the code keeps integral (an index, a count of seconds) is the      *)
(* 1-tuple Num(n).  Timer values may carry a fraction: they are carried    *)
(* doubled, Half(h) standing for h/2.  NaN is its own value.  The          *)
(* server's arithmetic is exact rational arithmetic on pairs <<n, d>>.     *)
(* Infinite timers and floating-point rounding are outside the model.      *)
(***************************************************************************)
EXTENDS Integers, Sequences, FiniteSets, TLC

VARIABLES
    blend,          \* NextBlendBinder.blend
    sequences,      \* NextBlendBinder.sequences: per bunker, seconds per layer, bottom first
    activeIdx,      \* NextBlendBinder.activeIdx: per bunker, index into sequences[b] (0 = bottom) or null
    remaining,      \* NextBlendBinder.remaining: per bunker, seconds left or null
    tickHandle,     \* NextBlendBinder._tickHandle: the interval's handle or null
    lastSnapshot,   \* NextBlendBinder._lastDispatchedSnapshot
    timers,         \* the interval timers that are live in the browser
    events,         \* the 'nextBlend:updated' events dispatched by the last operation, in order
    op,             \* the operation that ran last
    blends,         \* the Blend collection of the server, in order of creation
    request,        \* the request the server handled last (the arguments, for computeBlendMetrics)
    response,       \* the answer to it (the result, for computeBlendMetrics)
    metrics,        \* what computeBlendMetrics returned last
    written,        \* history: the _id of the blend the last 201 or 200 of POST or PUT wrote (0: none)
    COAL_COLOR_MAP, \* dashboard.js COAL_COLOR_MAP: normalized key -> colour ("" where it has none)
    paletteIndex,   \* dashboard.js _paletteIndex
    windowCoalDB,   \* window.COAL_DB
    colour,         \* the last call of findCoalColor: its argument and what it returned
    formEls,        \* input.js: the values of the input page's form elements
    latestBlendId,  \* input.js latestBlendId (0: null)
    sent            \* history: what the last saveToServer fetched, in order

binderVars == <<blend, sequences, activeIdx, remaining, tickHandle, lastSnapshot,
                timers, events>>

serverVars == <<blends, request, response, metrics, written>>
pageVars == <<COAL_COLOR_MAP, paletteIndex, windowCoalDB, colour>>
formVars == <<formEls, latestBlendId, sent>>

----------------------------------------------------------------------------
(* Values *)

Null == <<>>
Num(n) == <<n>>
Half(h) == <<h>>
NaN == <<0, 0>>
Val(x) == x[1]

Max(a, b) == IF a >= b THEN a ELSE b

\* ceil(n / d) for d > 0
CeilDiv(n, d) == -((-n) \div d)

\* JS arrays are indexed from 0
At(arr, i) == arr[i + 1]

----------------------------------------------------------------------------
(* Bounds of the inputs *)

MaxLayers == 3
MaxTimer == 2

----------------------------------------------------------------------------
(* dashboard.js: helpers *)

\* safeNum(v): null for null/undefined/NaN, else the number
safeNum(v) == IF v = Null \/ v = NaN THEN Null ELSE v

\* getBunkerFlow(blend, idx): blend.flows[idx] when it is a number, else
\* blend.bunkers[idx].flow when it is a number, else null
getBunkerFlow(bl, idx) ==
    IF idx < Len(bl.flows) /\ safeNum(At(bl.flows, idx)) # Null
    THEN safeNum(At(bl.flows, idx))
    ELSE IF bl.hasBunkers /\ idx < Len(bl.bunkers) /\ ~At(bl.bunkers, idx).nul
              /\ safeNum(At(bl.bunkers, idx).flow) # Null
         THEN safeNum(At(bl.bunkers, idx).flow)
         ELSE Null

(***************************************************************************)
(* parseTimerToSeconds.  A timer value is a record [kind, v]:              *)
(*   "null"       null or undefined                                        *)
(*   "number"     a finite number, v = <<h>> for h/2                       *)
(*   "numberInt"  {$numberInt: "n"}, v = <<n>>                             *)
(*   "numberDouble" {$numberDouble: "x"}, v = <<h>> for x = h/2            *)
(*   "nanDouble"  {$numberDouble: "NaN"}                                   *)
(*   "empty"      a blank string                                           *)
(*   "colon"      "a:b" or "a:b:c", v = the parts, each doubled            *)
(*   "text"       a string that holds one number, v = <<h>> for h/2        *)
(*   "garbage"    a string without ':' whose digits, dots and dashes are   *)
(*                no number, such as "1-2"                                 *)
(* The result is Null, NaN or Half(h).                                     *)
(***************************************************************************)
parseTimerToSeconds(t) ==
    CASE t.kind = "null" -> Null
      [] t.kind = "number" -> Half(2 * Max(0, t.v[1] \div 2))
      [] t.kind = "numberInt" -> Half(2 * Max(0, t.v[1]))
      [] t.kind = "numberDouble" -> Half(2 * Max(0, t.v[1] \div 2))
      [] t.kind = "nanDouble" -> NaN
      [] t.kind = "empty" -> Null
      [] t.kind = "colon" ->
            IF Len(t.v) = 3 THEN Half(t.v[1] * 3600 + t.v[2] * 60 + t.v[3])
            ELSE Half(t.v[1] * 60 + t.v[2])
      [] t.kind = "text" -> Half(2 * Max(0, t.v[1] \div 2))
      [] OTHER -> Null

\* The percent of a layer as buildSequencesFromBlend reads it: layer.percent,
\* else the first of layer.percentages, else 0
layerPct(L) ==
    IF L.percent # Null THEN Val(L.percent)
    ELSE IF Len(L.percentages) > 0 THEN L.percentages[1]
    ELSE 0

\* layerSeconds rounding the percent-derived seconds down instead of up
layerSeconds_Floor(L, capacity, fVal) ==
    IF L.nul THEN Null
    ELSE LET tsec == parseTimerToSeconds(L.timer) IN
         IF tsec # Null /\ tsec # NaN THEN Num(Max(0, Val(tsec) \div 2))
         ELSE IF layerPct(L) = 0 THEN Null
         ELSE IF capacity # Null /\ fVal # Null /\ Val(fVal) > 0
              THEN Num(Max(0, (layerPct(L) * Val(capacity) * 3600) \div (100 * Val(fVal))))
              ELSE Null

\* The body of buildSequencesFromBlend's inner loop: the entry pushed for layer L
layerSeconds(L, capacity, fVal) ==
    IF L.nul THEN Null
    ELSE LET tsec == parseTimerToSeconds(L.timer) IN
         IF tsec # Null /\ tsec # NaN THEN Num(Max(0, Val(tsec) \div 2))
         ELSE IF layerPct(L) = 0 THEN Null
         ELSE IF capacity # Null /\ fVal # Null /\ Val(fVal) > 0
              THEN Num(Max(0, CeilDiv(layerPct(L) * Val(capacity) * 3600, 100 * Val(fVal))))
              ELSE Null

\* The layers of bunker b (0-based) as the code reads them: [] when the bunker
\* is missing or has no layers array
bunkerLayers(bl, b) ==
    IF bl.hasBunkers /\ b < Len(bl.bunkers) /\ ~At(bl.bunkers, b).nul
    THEN At(bl.bunkers, b).layers
    ELSE <<>>

\* BUNKER_COUNT of buildSequencesFromBlend
bunkerCount(bl) == IF bl.hasBunkers THEN Len(bl.bunkers) ELSE 8

\* buildSequence iterating the layers from the first to the last
buildSequence_TopFirst(bl, b) ==
    LET layers == bunkerLayers(bl, b)
        n == Len(layers)
    IN [k \in 1..n |->
            layerSeconds(layers[k], safeNum(bl.bunkerCapacity), getBunkerFlow(bl, b))]

\* The sequence of one bunker: its layers from the last to the first
buildSequence(bl, b) ==
    LET layers == bunkerLayers(bl, b)
        n == Len(layers)
    IN [k \in 1..n |->
            layerSeconds(layers[n + 1 - k], safeNum(bl.bunkerCapacity), getBunkerFlow(bl, b))]

buildSequencesFromBlend(bl) ==
    [b1 \in 1..bunkerCount(bl) |-> buildSequence(bl, b1 - 1)]

----------------------------------------------------------------------------
(* dashboard.js: class NextBlendBinder *)

\* firstValidFrom without the test that skips null entries
firstValidFrom_NoSkip(seq, from) ==
    IF from >= Len(seq) THEN Null ELSE Num(from)

\* The first index i >= from of seq whose entry is not null, or null: the search
\* loops of _resetFromSequences (from = 0) and of _tick (from = currIdx + 1)
RECURSIVE firstValidFrom(_, _)
firstValidFrom(seq, from) ==
    IF from >= Len(seq) THEN Null
    ELSE IF At(seq, from) # Null THEN Num(from)
    ELSE firstValidFrom(seq, from + 1)

\* _resetFromSequences, for one bunker: the pair of its activeIdx and remaining
resetBunker(seq) ==
    LET found == firstValidFrom(seq, 0) IN
    IF found # Null THEN [a |-> found, r |-> At(seq, Val(found))]
    ELSE [a |-> Null, r |-> Null]

\* JSON.stringify({activeIdx, remaining}): on arrays of integers and nulls the
\* text determines both arrays, entry by entry
snapshotOf(a, r) == <<a, r>>

\* _maybeDispatch without the comparison: every call dispatches
maybeDispatch_Always(force, a, r, last) ==
    [last |-> snapshotOf(a, r),
     events |-> << [activeIdx |-> a, remaining |-> r] >>]

\* _maybeDispatch(force) in a binder whose arrays are a and r and whose last
\* snapshot is last: the new last snapshot and the events dispatched
maybeDispatch(force, a, r, last) ==
    IF ~force /\ snapshotOf(a, r) = last
    THEN [last |-> last, events |-> <<>>]
    ELSE [last |-> snapshotOf(a, r),
          events |-> << [activeIdx |-> a, remaining |-> r] >>]

\* tickBunker forgetting `changed = true` where it advances to the next layer
tickBunker_AdvanceUnflagged(seq, a, r) ==
    IF r = Null THEN [a |-> a, r |-> r, changed |-> FALSE]
    ELSE IF Val(r) > 0 THEN [a |-> a, r |-> Num(Val(r) - 1), changed |-> TRUE]
    ELSE LET nextIdx == firstValidFrom(seq, IF a = Null THEN 0 ELSE Val(a) + 1) IN
         IF nextIdx # Null
         THEN [a |-> nextIdx, r |-> At(seq, Val(nextIdx)), changed |-> FALSE]
         ELSE IF a # Null \/ r # Null
              THEN [a |-> Null, r |-> Null, changed |-> TRUE]
              ELSE [a |-> a, r |-> r, changed |-> FALSE]

\* tickBunker wrapping around to the bottom layer where no layer is left
tickBunker_Wrap(seq, a, r) ==
    IF r = Null THEN [a |-> a, r |-> r, changed |-> FALSE]
    ELSE IF Val(r) > 0 THEN [a |-> a, r |-> Num(Val(r) - 1), changed |-> TRUE]
    ELSE LET nextIdx == firstValidFrom(seq, IF a = Null THEN 0 ELSE Val(a) + 1)
             wrapIdx == IF nextIdx # Null THEN nextIdx ELSE firstValidFrom(seq, 0)
         IN [a |-> wrapIdx, r |-> At(seq, Val(wrapIdx)), changed |-> TRUE]

\* _tick, the body of the loop for one bunker: its new activeIdx and remaining,
\* and whether the loop sets `changed`
tickBunker(seq, a, r) ==
    IF r = Null THEN [a |-> a, r |-> r, changed |-> FALSE]
    ELSE IF Val(r) > 0 THEN [a |-> a, r |-> Num(Val(r) - 1), changed |-> TRUE]
    ELSE LET nextIdx == firstValidFrom(seq, IF a = Null THEN 0 ELSE Val(a) + 1) IN
         IF nextIdx # Null
         THEN [a |-> nextIdx, r |-> At(seq, Val(nextIdx)), changed |-> TRUE]
         ELSE IF a # Null \/ r # Null
              THEN [a |-> Null, r |-> Null, changed |-> TRUE]
              ELSE [a |-> a, r |-> r, changed |-> FALSE]

\* tickLoop leaving the loop (break) at the first bunker whose remaining is
\* null, where the code goes on to the next bunker (continue)
RECURSIVE tickLoop_Break(_, _, _, _)
tickLoop_Break(seqs, a, r, b) ==
    IF b >= Len(seqs) THEN <<>>
    ELSE IF At(r, b) = Null
         THEN [k \in 1..(Len(seqs) - b) |->
                  [a |-> At(a, b + k - 1), r |-> At(r, b + k - 1), changed |-> FALSE]]
         ELSE <<tickBunker(At(seqs, b), At(a, b), At(r, b))>> \o tickLoop_Break(seqs, a, r, b + 1)

\* _tick, the loop `for(let b = 0; b < this.sequences.length; b++)` from bunker
\* b on, in a binder whose arrays are a and r: what each iteration leaves of its
\* bunker (iteration b reads and writes entry b of the arrays, and no other)
RECURSIVE tickLoop(_, _, _, _)
tickLoop(seqs, a, r, b) ==
    IF b >= Len(seqs) THEN <<>>
    ELSE <<tickBunker(At(seqs, b), At(a, b), At(r, b))>> \o tickLoop(seqs, a, r, b + 1)

\* _tick on a binder whose arrays are a and r: the arrays and the `changed`
\* flag its loop leaves
tickResult(seqs, a, r) ==
    LET t == tickLoop(seqs, a, r, 0) IN
    [a |-> [b1 \in 1..Len(t) |-> t[b1].a],
     r |-> [b1 \in 1..Len(t) |-> t[b1].r],
     changed |-> \E b1 \in 1..Len(t) : t[b1].changed]

\* _tick, its closing `if(changed) this._maybeDispatch()`
tickDispatch(res, last) ==
    IF res.changed THEN maybeDispatch(FALSE, res.a, res.r, last)
    ELSE [last |-> last, events |-> <<>>]

\* getActiveLayer(bunkerIndex) of a binder whose blend is bl and activeIdx is a:
\* the layer object, or NullLayer for null
NullLayer ==
    [nul |-> TRUE, timer |-> [kind |-> "null", v |-> <<>>], percent |-> Null,
     percentages |-> <<>>, gcv |-> Null, coal |-> ""]

getActiveLayer(bl, a, bunkerIndex) ==
    IF ~bl.hasBunkers \/ bunkerIndex >= Len(bl.bunkers) \/ At(bl.bunkers, bunkerIndex).nul
    THEN NullLayer
    ELSE LET layers == At(bl.bunkers, bunkerIndex).layers
             idxInSeq == IF bunkerIndex < Len(a) THEN At(a, bunkerIndex) ELSE Null
         IN IF idxInSeq = Null THEN NullLayer
            ELSE LET orig == Len(layers) - 1 - Val(idxInSeq) IN
                 IF orig < 0 \/ orig >= Len(layers) THEN NullLayer
                 ELSE At(layers, orig)

----------------------------------------------------------------------------
(* Exact arithmetic for the server's numbers: <<n, d>> is n/d, d > 0, in lowest terms *)

Abs(n) == IF n < 0 THEN -n ELSE n

RECURSIVE GCD(_, _)
GCD(a, b) == IF b = 0 THEN a ELSE GCD(b, a % b)

RNorm(n, d) ==
    LET g == GCD(Abs(n), Abs(d))
        sgn == IF d < 0 THEN -1 ELSE 1
    IN <<sgn * (n \div g), sgn * (d \div g)>>

R(n) == <<n, 1>>
Zero == R(0)

RAdd(x, y) ==
    LET l == (x[2] \div GCD(x[2], y[2])) * y[2]
    IN RNorm(x[1] * (l \div x[2]) + y[1] * (l \div y[2]), l)

RMul(x, y) ==
    LET g1 == GCD(Abs(x[1]), y[2])
        g2 == GCD(Abs(y[1]), x[2])
    IN RNorm((x[1] \div g1) * (y[1] \div g2), (x[2] \div g2) * (y[2] \div g1))

RNeg(x) == <<-x[1], x[2]>>
RSub(x, y) == RAdd(x, RNeg(y))
RDiv(x, y) == RMul(x, RNorm(y[2], y[1]))
RPos(x) == x[1] > 0
RLess(x, y) == RSub(x, y)[1] < 0

RECURSIVE RSum(_)
RSum(xs) == IF xs = <<>> THEN Zero ELSE RAdd(Head(xs), RSum(Tail(xs)))

----------------------------------------------------------------------------
(* server.js: the Coal collection *)

OxKeys == <<"SiO2", "Al2O3", "Fe2O3", "CaO", "MgO", "Na2O", "K2O", "SO3", "TiO2">>

CoalDoc(id, name, gcv, cost, si, al, fe, ca) ==
    [_id |-> id, coal |-> name, gcv |-> R(gcv), cost |-> R(cost),
     SiO2 |-> R(si), Al2O3 |-> R(al), Fe2O3 |-> R(fe), CaO |-> R(ca), MgO |-> Zero,
     Na2O |-> Zero, K2O |-> Zero, SO3 |-> Zero, TiO2 |-> Zero]

\* The documents Coal.find() returns: three coals with ash, one without
allCoals ==
    << CoalDoc("id1", "Alpha", 4000, 30, 50, 20, 10, 0),
       CoalDoc("id2", "Beta", 5000, 50, 60, 30, 0, 10),
       CoalDoc("id3", "Gamma", 3000, 20, 20, 20, 20, 0),
       CoalDoc("id4", "Coke", 6000, 80, 0, 0, 0, 0) >>

\* String.prototype.toLowerCase on the names in use
toLowerCase(str) ==
    CASE str = "Alpha" -> "alpha" [] str = "ALPHA" -> "alpha"
      [] str = "Beta" -> "beta" [] str = "Gamma" -> "gamma" [] str = "Coke" -> "coke"
      [] str = "Mystery" -> "mystery"
      [] OTHER -> str

NoCoal ==
    [_id |-> "", coal |-> "", gcv |-> Zero, cost |-> Zero,
     SiO2 |-> Zero, Al2O3 |-> Zero, Fe2O3 |-> Zero, CaO |-> Zero, MgO |-> Zero,
     Na2O |-> Zero, K2O |-> Zero, SO3 |-> Zero, TiO2 |-> Zero]

\* findCoalRef(ref): the coal document with that _id, else the one with that
\* name whatever its case, else null (NoCoal)
findCoalRef(ref) ==
    IF ref = "" THEN NoCoal
    ELSE IF \E i \in 1..Len(allCoals) : allCoals[i]._id = ref
         THEN allCoals[CHOOSE i \in 1..Len(allCoals) : allCoals[i]._id = ref]
    ELSE IF \E i \in 1..Len(allCoals) : toLowerCase(allCoals[i].coal) = toLowerCase(ref)
         THEN allCoals[CHOOSE i \in 1..Len(allCoals) :
                          toLowerCase(allCoals[i].coal) = toLowerCase(ref)]
    ELSE NoCoal

----------------------------------------------------------------------------
(* server.js: computeBlendMetrics.  A row is a record                      *)
(*   coal         [isMap, ref, map]: a string ref, or an object whose      *)
(*                entry for mill m is map[m+1] ("" where it has none)      *)
(*   pctIsArray, percentages   the percentages, null or a number each      *)
(*   gcv, cost    null or a number                                         *)
(*   ox           the oxides the row itself carries, null or a number each *)

NumMills == 6

Mills == 0..(NumMills - 1)

\* coalRefForRowAndMill(row, mill)
coalRefForRowAndMill(row, mill) ==
    IF row.coal.isMap THEN At(row.coal.map, mill) ELSE row.coal.ref

\* (Array.isArray(row.percentages) && row.percentages[m]) ? Number(row.percentages[m]) : 0
percOf(row, m) ==
    IF row.pctIsArray /\ m < Len(row.percentages) /\ At(row.percentages, m) # Null
    THEN At(row.percentages, m)
    ELSE Zero

\* gcvVal: the row's own gcv when it has one, else the coal document's, else 0
gcvVal(row, m) ==
    IF row.gcv # Null THEN row.gcv
    ELSE findCoalRef(coalRefForRowAndMill(row, m)).gcv

\* What row i adds to oxide k of mill m
oxPart(row, m, k) ==
    LET coalDoc == findCoalRef(coalRefForRowAndMill(row, m))
        weight == RDiv(percOf(row, m), R(100))
    IN IF coalDoc # NoCoal THEN RMul(coalDoc[k], weight)
       ELSE IF row.ox[k] # Null THEN RMul(row.ox[k], weight)
       ELSE Zero

\* blendedGCV of mill m, after the loop over the rows
blendedGCV(rows, m) ==
    RSum([i \in 1..Len(rows) |-> RMul(gcvVal(rows[i], m), RDiv(percOf(rows[i], m), R(100)))])

\* Oxide k of mill m, after the loop over the rows
oxSum(rows, m, k) == RSum([i \in 1..Len(rows) |-> oxPart(rows[i], m, k)])

\* blendedGCVPerMill, from mill m on
RECURSIVE blendedGCVPerMillFrom(_, _)
blendedGCVPerMillFrom(rows, m) ==
    IF m >= NumMills THEN <<>>
    ELSE <<blendedGCV(rows, m)>> \o blendedGCVPerMillFrom(rows, m + 1)

\* ox of mill m, after the loop over the rows
oxOfMill(rows, m) ==
    [SiO2 |-> oxSum(rows, m, "SiO2"), Al2O3 |-> oxSum(rows, m, "Al2O3"),
     Fe2O3 |-> oxSum(rows, m, "Fe2O3"), CaO |-> oxSum(rows, m, "CaO"),
     MgO |-> oxSum(rows, m, "MgO"), Na2O |-> oxSum(rows, m, "Na2O"),
     K2O |-> oxSum(rows, m, "K2O"), SO3 |-> oxSum(rows, m, "SO3"),
     TiO2 |-> oxSum(rows, m, "TiO2")]

oxTotalOf(ox) == RSum([j \in 1..Len(OxKeys) |-> ox[OxKeys[j]]])

Dec(n, d) == RNorm(n, d)

\* calcAFT(ox)
calcAFT(ox) ==
    LET sum == RAdd(ox.SiO2, ox.Al2O3)
        alk == RAdd(ox.Na2O, ox.K2O)
        form(c0, cSi, cAl, cFe, cCa, cAlk, cSO3) ==
            RSub(RSub(RSub(RSub(RSub(RSub(
                RAdd(RAdd(R(c0), RMul(cSi, ox.SiO2)), RMul(cAl, ox.Al2O3)),
                RMul(cFe, ox.Fe2O3)), RMul(cCa, ox.CaO)), RMul(Dec(45, 10), ox.MgO)),
                RMul(cAlk, alk)), RMul(cSO3, ox.SO3)), RMul(Dec(63, 100), ox.TiO2))
    IN IF oxTotalOf(ox) = Zero THEN Zero
       ELSE IF RLess(sum, R(55))
            THEN form(1245, Dec(11, 10), Dec(95, 100), Dec(25, 10), Dec(298, 100),
                      Dec(789, 100), Dec(17, 10))
       ELSE IF RLess(sum, R(75))
            THEN form(1323, Dec(145, 100), Dec(683, 1000), Dec(239, 100), Dec(31, 10),
                      Dec(749, 100), Dec(21, 10))
       ELSE form(1395, Dec(12, 10), Dec(9, 10), Dec(25, 10), Dec(31, 10),
                 Dec(72, 10), Dec(17, 10))

\* aftVal of mill m: null when the oxides of the mill total 0
aftOfMill(rows, m) ==
    LET ox == oxOfMill(rows, m)
    IN IF oxTotalOf(ox) = Zero THEN Null ELSE calcAFT(ox)

\* aftPerMill, from mill m on
RECURSIVE aftPerMillFrom(_, _)
aftPerMillFrom(rows, m) ==
    IF m >= NumMills THEN <<>>
    ELSE <<aftOfMill(rows, m)>> \o aftPerMillFrom(rows, m + 1)

\* (Array.isArray(flows) && flows[m]) ? Number(flows[m]) : 0
flowOf(flows, m) ==
    IF m < Len(flows) /\ At(flows, m) # Null THEN At(flows, m) ELSE Zero

\* The sums of the loop `for (let m = 0; m < 6; m++)` over the flows
totalFlowOf(flows) == RSum([m1 \in 1..NumMills |-> flowOf(flows, m1 - 1)])

weightedGCVOf(flows, gcvPerMill) ==
    RSum([m1 \in 1..NumMills |-> RMul(flowOf(flows, m1 - 1), gcvPerMill[m1])])

weightedAFTOf(flows, aftPerMill) ==
    RSum([m1 \in 1..NumMills |->
            IF aftPerMill[m1] # Null THEN RMul(flowOf(flows, m1 - 1), aftPerMill[m1]) ELSE Zero])

\* contributedAFTFlow counting the flow of every mill
contributedAFTFlowOf_AllMills(flows, aftPerMill) ==
    RSum([m1 \in 1..NumMills |-> flowOf(flows, m1 - 1)])

contributedAFTFlowOf(flows, aftPerMill) ==
    RSum([m1 \in 1..NumMills |->
            IF aftPerMill[m1] # Null THEN flowOf(flows, m1 - 1) ELSE Zero])

\* avgGCV as the plain mean of the mills
avgGCVOf_MeanOfMills(weightedGCV, totalFlow) ==
    IF RPos(totalFlow) THEN RDiv(weightedGCV, R(NumMills)) ELSE Zero

\* const avgGCV = totalFlow > 0 ? (weightedGCV / totalFlow) : 0
avgGCVOf(weightedGCV, totalFlow) ==
    IF RPos(totalFlow) THEN RDiv(weightedGCV, totalFlow) ELSE Zero

\* const avgAFT = contributedAFTFlow > 0 ? (weightedAFT / contributedAFTFlow) : null
avgAFTOf(weightedAFT, contributedAFTFlow) ==
    IF RPos(contributedAFTFlow) THEN RDiv(weightedAFT, contributedAFTFlow) ELSE Null

\* heatRate without the test of totalFlow
heatRateOf_NoFlowGuard(generation, totalFlow, avgGCV) ==
    IF generation # Null /\ RPos(generation)
    THEN RDiv(RMul(totalFlow, avgGCV), generation)
    ELSE Null

\* const heatRate = (generation && generation > 0 && totalFlow > 0) ? ... : null
heatRateOf(generation, totalFlow, avgGCV) ==
    IF generation # Null /\ RPos(generation) /\ RPos(totalFlow)
    THEN RDiv(RMul(totalFlow, avgGCV), generation)
    ELSE Null

\* rowQtySum(row): the sum of all its percentages
rowQtySum(row) ==
    IF ~row.pctIsArray THEN Zero
    ELSE RSum([j \in 1..Len(row.percentages) |->
                 IF row.percentages[j] # Null THEN row.percentages[j] ELSE Zero])

\* costPerRow: the row's own cost when it has one, else the cost of the coal
\* document row.coal names (an object names none)
costOfRow(row) ==
    IF row.cost # Null THEN row.cost
    ELSE IF row.coal.isMap THEN Zero
    ELSE findCoalRef(row.coal.ref).cost

costRateOf(rows) ==
    LET totalCost == RSum([i \in 1..Len(rows) |-> RMul(rowQtySum(rows[i]), costOfRow(rows[i]))])
        totalQty == RSum([i \in 1..Len(rows) |-> rowQtySum(rows[i])])
    IN IF RPos(totalQty) THEN RDiv(totalCost, totalQty) ELSE Zero

\* x || y on numbers
OrElse(x, y) == IF x = Zero THEN y ELSE x

\* The layer pushed for row rIdx (from 0) in bunker m
layerOfRow(row, rIdx, m) ==
    LET coalRef == coalRefForRowAndMill(row, m)
        coalDoc == findCoalRef(coalRef)
        rowGcv == IF row.gcv # Null THEN row.gcv ELSE Zero
        rowCost == IF row.cost # Null THEN row.cost ELSE Zero
    IN [rowIndex |-> rIdx + 1,
        coal |-> IF coalDoc # NoCoal THEN coalDoc.coal ELSE coalRef,
        percent |-> percOf(row, m),
        gcv |-> IF coalDoc # NoCoal THEN OrElse(coalDoc.gcv, rowGcv) ELSE rowGcv,
        cost |-> IF coalDoc # NoCoal THEN OrElse(coalDoc.cost, rowCost) ELSE rowCost]

\* The layers of bunker m, keeping every row whose percentage is not 0
RECURSIVE layersFrom_NonZero(_, _, _)
layersFrom_NonZero(rows, rIdx, m) ==
    IF rIdx >= Len(rows) THEN <<>>
    ELSE IF percOf(At(rows, rIdx), m) # Zero
         THEN <<layerOfRow(At(rows, rIdx), rIdx, m)>> \o layersFrom_NonZero(rows, rIdx + 1, m)
         ELSE layersFrom_NonZero(rows, rIdx + 1, m)

\* The layers of bunker m: the rows from rIdx on whose percentage for m is above 0
RECURSIVE layersFrom(_, _, _)
layersFrom(rows, rIdx, m) ==
    IF rIdx >= Len(rows) THEN <<>>
    ELSE IF RPos(percOf(At(rows, rIdx), m))
         THEN <<layerOfRow(At(rows, rIdx), rIdx, m)>> \o layersFrom(rows, rIdx + 1, m)
         ELSE layersFrom(rows, rIdx + 1, m)

\* bunkers, from bunker m on
RECURSIVE bunkersFrom(_, _)
bunkersFrom(rows, m) ==
    IF m >= NumMills THEN <<>>
    ELSE <<[layers |-> layersFrom(rows, 0, m)]>> \o bunkersFrom(rows, m + 1)

computeBlendMetrics(rows, flows, generation) ==
    LET blendedGCVPerMill == blendedGCVPerMillFrom(rows, 0)
        aftPerMill == aftPerMillFrom(rows, 0)
        totalFlow == totalFlowOf(flows)
        avgGCV == avgGCVOf(weightedGCVOf(flows, blendedGCVPerMill), totalFlow)
    IN [totalFlow |-> totalFlow,
        avgGCV |-> avgGCV,
        avgAFT |-> avgAFTOf(weightedAFTOf(flows, aftPerMill),
                            contributedAFTFlowOf(flows, aftPerMill)),
        heatRate |-> heatRateOf(generation, totalFlow, avgGCV),
        costRate |-> costRateOf(rows),
        aftPerMill |-> aftPerMill,
        blendedGCVPerMill |-> blendedGCVPerMill,
        bunkers |-> bunkersFrom(rows, 0)]

\* The bunkers loop reads row.percentages of every row without the `|| {}`
\* the loops before it have: a null row throws a TypeError there, after the
\* metrics are computed and before they are returned
computeBlendMetricsThrows(rows) == \E i \in 1..Len(rows) : rows[i].nul

----------------------------------------------------------------------------
(* server.js: the blend endpoints *)

\* The name a coal ref resolves to in resolveRowCoalField: the name of the
\* document with that _id or that name, else the ref itself
resolveRef(ref) ==
    IF ref = "" THEN ""
    ELSE IF findCoalRef(ref) # NoCoal THEN findCoalRef(ref).coal
    ELSE ref

\* resolveRowCoalField(row): the copy that is saved and handed to computeBlendMetrics
resolveRowCoalField(row) ==
    IF row.nul THEN row
    ELSE [row EXCEPT
            !.coal = IF row.coal.isMap
                     THEN [row.coal EXCEPT
                             !.map = [j \in 1..Len(row.coal.map) |-> resolveRef(row.coal.map[j])]]
                     ELSE [row.coal EXCEPT !.ref = resolveRef(row.coal.ref)],
            !.pctIsArray = TRUE,
            !.percentages =
                IF row.pctIsArray
                THEN [j \in 1..Len(row.percentages) |->
                        IF row.percentages[j] # Null THEN row.percentages[j] ELSE Zero]
                ELSE [j \in 1..6 |-> Zero],
            !.gcv = IF row.gcv # Null THEN row.gcv ELSE Zero,
            !.cost = IF row.cost # Null THEN row.cost ELSE Zero]

\* const rowsToSave = (rows || []).map(row => resolveRowCoalField(row))
rowsToSaveOf(rows) == [i \in 1..Len(rows) |-> resolveRowCoalField(rows[i])]

\* The handlers computing the metrics of the rows as they were sent
rowsForMetrics_AsSent(req) == req.rows

\* The rows the handlers hand to computeBlendMetrics
rowsForMetrics(req) == rowsToSaveOf(req.rows)

\* !Array.isArray(rows) || !Array.isArray(flows)
invalidPayload(req) == ~req.rowsIsArray \/ ~req.flowsIsArray

\* Object.assign({}, {rows, flows, generation, bunkers}, metrics), with the
\* _id and createdAt the document has
blendDoc(id, createdAt, req, m) ==
    [id |-> id, createdAt |-> createdAt,
     rows |-> rowsToSaveOf(req.rows), flows |-> req.flows, generation |-> req.generation,
     totalFlow |-> m.totalFlow, avgGCV |-> m.avgGCV, avgAFT |-> m.avgAFT,
     heatRate |-> m.heatRate, costRate |-> m.costRate, aftPerMill |-> m.aftPerMill,
     blendedGCVPerMill |-> m.blendedGCVPerMill, bunkers |-> m.bunkers]

Answer(status, id) == [status |-> status, id |-> id]

MaxBlends == 2

\* The positions of the blends whose _id is id
withId(id) == {i \in 1..Len(blends) : blends[i].id = id}

\* An update that also stamps the document as the newest
findByIdAndUpdate_Touch(id, req, m) ==
    [i \in 1..Len(blends) |->
        IF blends[i].id = id THEN blendDoc(id, Len(blends) + 1, req, m) ELSE blends[i]]

\* An update with {upsert: true}: a document is created where none has that _id
findByIdAndUpdate_Upsert(id, req, m) ==
    IF \A i \in 1..Len(blends) : blends[i].id # id
    THEN Append(blends, blendDoc(id, Len(blends) + 1, req, m))
    ELSE [i \in 1..Len(blends) |->
            IF blends[i].id = id THEN blendDoc(id, blends[i].createdAt, req, m) ELSE blends[i]]

\* Blend.findByIdAndUpdate(id, fields): the collection with the fields of the
\* document of that _id replaced; _id and createdAt stay
findByIdAndUpdate(id, req, m) ==
    [i \in 1..Len(blends) |->
        IF blends[i].id = id THEN blendDoc(id, blends[i].createdAt, req, m) ELSE blends[i]]

\* new Blend(...).save(): the collection with the new document
saveNew(req, m) ==
    Append(blends, blendDoc(Len(blends) + 1, Len(blends) + 1, req, m))

\* app.post('/api/blend')
Post(req) ==
    /\ Len(blends) < MaxBlends
    /\ request' = req
    /\ op' = "POST"
    /\ IF invalidPayload(req)
       THEN /\ response' = Answer(400, 0)
            /\ UNCHANGED <<blends, metrics, written>>
       ELSE IF computeBlendMetricsThrows(rowsForMetrics(req))
       THEN /\ response' = Answer(500, 0)
            /\ UNCHANGED <<blends, metrics, written>>
       ELSE /\ metrics' = computeBlendMetrics(rowsForMetrics(req), req.flows, req.generation)
            /\ blends' = saveNew(req, metrics')
            /\ response' = Answer(201, Len(blends) + 1)
            /\ written' = Len(blends) + 1
    /\ UNCHANGED <<binderVars, pageVars>>

\* app.put('/api/blend/:id')
Put(id, req) ==
    /\ request' = req
    /\ op' = "PUT"
    /\ IF invalidPayload(req)
       THEN /\ response' = Answer(400, 0)
            /\ UNCHANGED <<blends, metrics, written>>
       ELSE IF computeBlendMetricsThrows(rowsForMetrics(req))
       THEN /\ response' = Answer(500, 0)
            /\ UNCHANGED <<blends, metrics, written>>
       ELSE /\ metrics' = computeBlendMetrics(rowsForMetrics(req), req.flows, req.generation)
            /\ blends' = findByIdAndUpdate(id, req, metrics')
            /\ response' = IF withId(id) = {} THEN Answer(404, 0) ELSE Answer(200, id)
            /\ written' = IF withId(id) = {} THEN written ELSE id
    /\ UNCHANGED <<binderVars, pageVars>>

\* Blend.findOne().sort({createdAt: -1}): the position of a blend no blend is newer than
latestOf == CHOOSE i \in 1..Len(blends) : \A j \in 1..Len(blends) : blends[j].createdAt <= blends[i].createdAt

\* app.get('/api/blend/latest')
GetLatest ==
    /\ op' = "GET"
    /\ response' = IF blends = <<>> THEN Answer(404, 0) ELSE Answer(200, blends[latestOf].id)
    /\ UNCHANGED <<blends, request, metrics, written, binderVars, pageVars, formVars>>

----------------------------------------------------------------------------
(* dashboard.js: the derived metrics.  An entry of coalDB is a record        *)
(* [nul, _id, id, coal, name, gcv, color], "" for a text it does not have;  *)
(* a row of blend.rows is a record [nul, coal, pctIsArray, percentages,     *)
(* percent, gcv] with coal as on the server and the numbers Null, NaN or    *)
(* Num(n).                                                                  *)

\* String.prototype.trim on the names in use
trim(str) ==
    CASE str = " Alpha " -> "Alpha" [] str = "gamma " -> "gamma" [] OTHER -> str

\* The test of the coalDB.find(...) of getBottomGcvForBunker
coalMatches(c, ref) ==
    /\ ~c.nul
    /\ \/ c.coal # "" /\ toLowerCase(trim(c.coal)) = toLowerCase(trim(ref))
       \/ c.name # "" /\ toLowerCase(trim(c.name)) = toLowerCase(trim(ref))
       \/ (IF c._id # "" THEN c._id ELSE c.id) # "" /\ (IF c._id # "" THEN c._id ELSE c.id) = ref

\* A value returned, or nothing returned yet
Returned(v) == [done |-> TRUE, v |-> v]
NotReturned == [done |-> FALSE, v |-> Null]

\* if(found && found.gcv !== undefined && found.gcv !== null) return safeNum(found.gcv)
gcvOfCoal(coalDB, ref) ==
    LET hits == {i \in 1..Len(coalDB) : coalMatches(coalDB[i], ref)}
        first == CHOOSE i \in hits : \A j \in hits : i <= j
    IN IF hits # {} /\ coalDB[first].gcv # Null THEN Returned(safeNum(coalDB[first].gcv))
       ELSE NotReturned

\* The gcv of a layer, else the gcv of the coal it names
gcvOfLayer(coalDB, L) ==
    IF safeNum(L.gcv) # Null THEN Returned(safeNum(L.gcv))
    ELSE IF L.coal # "" THEN gcvOfCoal(coalDB, L.coal)
    ELSE NotReturned

\* 0) the active layer of the binder
gcvFromBinder(bl, coalDB, a, bunkerIndex) ==
    LET activeLayer == getActiveLayer(bl, a, bunkerIndex)
    IN IF activeLayer.nul THEN NotReturned ELSE gcvOfLayer(coalDB, activeLayer)

\* pctVal && pctVal > 0, for the percent or the first of the percentages of a layer
layerHasPercent(L) ==
    LET pctVal == IF L.percent # Null THEN safeNum(L.percent)
                  ELSE IF Len(L.percentages) > 0 THEN Num(L.percentages[1])
                  ELSE Num(0)
    IN pctVal # Null /\ Val(pctVal) > 0

\* 1) bunker.layers from index li down to 0
RECURSIVE gcvFromLayers(_, _, _)
gcvFromLayers(layers, coalDB, li) ==
    IF li < 0 THEN NotReturned
    ELSE IF ~At(layers, li).nul /\ layerHasPercent(At(layers, li))
              /\ gcvOfLayer(coalDB, At(layers, li)).done
         THEN gcvOfLayer(coalDB, At(layers, li))
         ELSE gcvFromLayers(layers, coalDB, li - 1)

\* p of a row for the bunker
rowPercent(row, bunkerIndex) ==
    IF row.pctIsArray /\ Len(row.percentages) > bunkerIndex
    THEN safeNum(At(row.percentages, bunkerIndex))
    ELSE IF row.percent # Null /\ row.percent # NaN /\ (bunkerIndex = 0 \/ Val(row.percent) # 0)
         THEN row.percent
         ELSE Null

\* What a row with a percentage for the bunker returns
gcvOfRow(coalDB, row, bunkerIndex) ==
    IF safeNum(row.gcv) # Null THEN Returned(safeNum(row.gcv))
    ELSE IF row.coal.isMap
         THEN IF bunkerIndex < Len(row.coal.map) /\ At(row.coal.map, bunkerIndex) # ""
              THEN gcvOfCoal(coalDB, At(row.coal.map, bunkerIndex))
              ELSE NotReturned
         ELSE IF row.coal.ref # "" THEN gcvOfCoal(coalDB, row.coal.ref)
         ELSE NotReturned

\* 2) blend.rows from index r down to 0
RECURSIVE gcvFromRows(_, _, _, _)
gcvFromRows(rows, coalDB, bunkerIndex, r) ==
    IF r < 0 THEN NotReturned
    ELSE IF ~At(rows, r).nul
              /\ rowPercent(At(rows, r), bunkerIndex) # Null
              /\ Val(rowPercent(At(rows, r), bunkerIndex)) # 0
              /\ gcvOfRow(coalDB, At(rows, r), bunkerIndex).done
         THEN gcvOfRow(coalDB, At(rows, r), bunkerIndex)
         ELSE gcvFromRows(rows, coalDB, bunkerIndex, r - 1)

\* getBottomGcvForBunker without the step 0 that asks the binder
getBottomGcvForBunker_NoBinder(bl, coalDB, a, bunkerIndex) ==
    LET layers == IF bl.hasBunkers /\ bunkerIndex < Len(bl.bunkers)
                     /\ ~At(bl.bunkers, bunkerIndex).nul
                  THEN At(bl.bunkers, bunkerIndex).layers ELSE <<>>
        s1 == gcvFromLayers(layers, coalDB, Len(layers) - 1)
        s2 == gcvFromRows(bl.rows, coalDB, bunkerIndex, Len(bl.rows) - 1)
    IN IF s1.done THEN s1.v
       ELSE IF s2.done THEN s2.v
       ELSE Null

\* getBottomGcvForBunker(blend, coalDB, bunkerIndex), window.nextBlendBinder
\* being the binder of that blend with activeIdx a
getBottomGcvForBunker(bl, coalDB, a, bunkerIndex) ==
    LET layers == IF bl.hasBunkers /\ bunkerIndex < Len(bl.bunkers)
                     /\ ~At(bl.bunkers, bunkerIndex).nul
                  THEN At(bl.bunkers, bunkerIndex).layers ELSE <<>>
        s0 == gcvFromBinder(bl, coalDB, a, bunkerIndex)
        s1 == gcvFromLayers(layers, coalDB, Len(layers) - 1)
        s2 == gcvFromRows(bl.rows, coalDB, bunkerIndex, Len(bl.rows) - 1)
    IN IF s0.done THEN s0.v
       ELSE IF s1.done THEN s1.v
       ELSE IF s2.done THEN s2.v
       ELSE Null

\* sumNumerator and sumFlowsForNumerator after the bunkers from b on
RECURSIVE sumNumeratorFrom(_, _, _, _)
sumNumeratorFrom(bl, coalDB, a, b) ==
    IF b >= bunkerCount(bl) THEN Zero
    ELSE LET flowVal == getBunkerFlow(bl, b)
             bottomGcv == getBottomGcvForBunker(bl, coalDB, a, b)
         IN RAdd(IF flowVal # Null /\ bottomGcv # Null
                 THEN R(Val(bottomGcv) * Val(flowVal)) ELSE Zero,
                 sumNumeratorFrom(bl, coalDB, a, b + 1))

RECURSIVE sumFlowsForNumeratorFrom(_, _, _, _)
sumFlowsForNumeratorFrom(bl, coalDB, a, b) ==
    IF b >= bunkerCount(bl) THEN Zero
    ELSE LET flowVal == getBunkerFlow(bl, b)
             bottomGcv == getBottomGcvForBunker(bl, coalDB, a, b)
         IN RAdd(IF flowVal # Null /\ bottomGcv # Null THEN R(Val(flowVal)) ELSE Zero,
                 sumFlowsForNumeratorFrom(bl, coalDB, a, b + 1))

\* computeDerivedMetrics(blend, coalDB): avgGCV, heatRate and totalFlow, each
\* null or a number
computeDerivedMetrics(bl, coalDB, a) ==
    LET bf == safeNum(bl.totalFlow)
        sumNumerator == sumNumeratorFrom(bl, coalDB, a, 0)
        sumFlowsForNumerator == sumFlowsForNumeratorFrom(bl, coalDB, a, 0)
        totalFlow == IF bf # Null THEN R(Val(bf))
                     ELSE IF RPos(sumFlowsForNumerator) THEN sumFlowsForNumerator
                     ELSE Null
        avgGCV == IF totalFlow # Null /\ RPos(totalFlow) THEN RDiv(sumNumerator, totalFlow) ELSE Null
        generation == safeNum(bl.generation)
    IN [avgGCV |-> avgGCV,
        heatRate |-> IF avgGCV # Null /\ totalFlow # Null /\ generation # Null
                        /\ Val(generation) > 0
                     THEN RDiv(RMul(avgGCV, totalFlow), R(Val(generation)))
                     ELSE Null,
        totalFlow |-> totalFlow]

----------------------------------------------------------------------------
(* dashboard.js: the colours of the coals *)

DEFAULT_COAL_COLORS ==
    <<"#f39c12", "#3498db", "#2ecc71", "#ef4444", "#8b5cf6", "#14b8a6", "#f97316", "#06b6d4">>

\* The keys COAL_COLOR_MAP can hold here
ColorKeys ==
    {"alpha", "beta", "mystery", "id1", "k1", "k2", "k3", "k4", "k5", "k6", "k7", "k8"}

\* normalizeKey(coalNameOrId)
normalizeKey(coalNameOrId) == toLowerCase(trim(coalNameOrId))

\* entry.color || entry.colour
colourOf(entry) == entry.color

\* The least of a set of positions, 0 when it is empty
firstOf(hits) == IF hits = {} THEN 0 ELSE CHOOSE i \in hits : \A j \in hits : i <= j

\* The colour findCoalColor finds on the entries of coalDB: that of the first
\* entry of that name when it has one, else that of the first entry of that
\* id when it has one, else none
explicitColour(coalNameOrId, db) ==
    LET byExactName ==
            firstOf({i \in 1..Len(db) :
                        normalizeKey(IF db[i].coal # "" THEN db[i].coal ELSE db[i].name)
                            = normalizeKey(coalNameOrId)})
        byIdEntry == firstOf({i \in 1..Len(db) : db[i].id # "" /\ db[i].id = coalNameOrId})
    IN IF byExactName # 0 /\ colourOf(db[byExactName]) # "" THEN colourOf(db[byExactName])
       ELSE IF byIdEntry # 0 /\ colourOf(db[byIdEntry]) # "" THEN colourOf(db[byIdEntry])
       ELSE ""

\* DEFAULT_COAL_COLORS.find(c => !used.has(c)): its position, 0 when all are used
unusedColour(map) ==
    LET free == {i \in 1..Len(DEFAULT_COAL_COLORS) :
                    \A k \in ColorKeys : map[k] # DEFAULT_COAL_COLORS[i]}
    IN IF free = {} THEN 0 ELSE CHOOSE i \in free : \A j \in free : i <= j

\* findCoalColor asking the entries of coalDB before the map
colourFound_EntryFirst(coalNameOrId, db, map, index) ==
    LET key == normalizeKey(coalNameOrId)
    IN IF coalNameOrId = "" THEN ""
       ELSE IF explicitColour(coalNameOrId, db) # "" THEN explicitColour(coalNameOrId, db)
       ELSE IF map[key] # "" THEN map[key]
       ELSE IF unusedColour(map) # 0 THEN DEFAULT_COAL_COLORS[unusedColour(map)]
       ELSE DEFAULT_COAL_COLORS[(index % Len(DEFAULT_COAL_COLORS)) + 1]

\* What findCoalColor(coalNameOrId, coalDB) returns ("" for null)
colourFound(coalNameOrId, db, map, index) ==
    LET key == normalizeKey(coalNameOrId)
    IN IF coalNameOrId = "" THEN ""
       ELSE IF map[key] # "" THEN map[key]
       ELSE IF explicitColour(coalNameOrId, db) # "" THEN explicitColour(coalNameOrId, db)
       ELSE IF unusedColour(map) # 0 THEN DEFAULT_COAL_COLORS[unusedColour(map)]
       ELSE DEFAULT_COAL_COLORS[(index % Len(DEFAULT_COAL_COLORS)) + 1]

\* The round robin was used: no colour in the map, none on an entry, none unused
roundRobin(coalNameOrId, db, map) ==
    /\ coalNameOrId # ""
    /\ map[normalizeKey(coalNameOrId)] = ""
    /\ explicitColour(coalNameOrId, db) = ""
    /\ unusedColour(map) = 0

MaxPaletteIndex == 2

\* findCoalColor(coalNameOrId, coalDB)
FindCoalColor(coalNameOrId) ==
    /\ roundRobin(coalNameOrId, windowCoalDB, COAL_COLOR_MAP) => paletteIndex < MaxPaletteIndex
    /\ op' = "findCoalColor"
    /\ colour' = [arg |-> coalNameOrId,
                  result |-> colourFound(coalNameOrId, windowCoalDB, COAL_COLOR_MAP, paletteIndex)]
    /\ COAL_COLOR_MAP' =
          IF coalNameOrId = "" THEN COAL_COLOR_MAP
          ELSE [COAL_COLOR_MAP EXCEPT ![normalizeKey(coalNameOrId)] = colour'.result]
    /\ paletteIndex' = IF roundRobin(coalNameOrId, windowCoalDB, COAL_COLOR_MAP)
                       THEN paletteIndex + 1 ELSE paletteIndex
    /\ UNCHANGED <<windowCoalDB, binderVars, serverVars, formVars>>

\* The map after syncColorMapFromCoalDB has gone through the entries from i on
RECURSIVE syncFrom(_, _, _)
syncFrom(db, map, i) ==
    IF i > Len(db) THEN map
    ELSE LET entry == db[i]
             key == normalizeKey(IF entry.coal # "" THEN entry.coal
                                 ELSE IF entry.name # "" THEN entry.name ELSE entry.id)
         IN syncFrom(db,
                     IF key # "" /\ colourOf(entry) # "" /\ map[key] = ""
                     THEN [map EXCEPT ![key] = colourOf(entry)] ELSE map,
                     i + 1)

\* refreshAndRender as far as the colours go: window.COAL_DB is what was
\* fetched, and syncColorMapFromCoalDB runs on it
RefreshCoalDB(db) ==
    /\ op' = "refresh"
    /\ windowCoalDB' = db
    /\ COAL_COLOR_MAP' = syncFrom(db, COAL_COLOR_MAP, 1)
    /\ UNCHANGED <<paletteIndex, colour, binderVars, serverVars, formVars>>

----------------------------------------------------------------------------
(* The blends the binder is given *)

TimerOf(kind, v) == [kind |-> kind, v |-> v]
NoTimer == TimerOf("null", <<>>)

LayerOf(timer, percent, percentages) ==
    [nul |-> FALSE, timer |-> timer, percent |-> percent,
     percentages |-> percentages, gcv |-> Null, coal |-> ""]

\* Timers that parseTimerToSeconds turns into a number: whole and fractional
\* numbers, negative ones, Extended JSON numbers, "m:s" and "h:m:s" texts
NumericTimers ==
    {TimerOf("number", <<h>>) : h \in -1..(2 * MaxTimer + 1)}
    \cup {TimerOf("numberInt", <<n>>) : n \in {-1, MaxTimer}}
    \cup {TimerOf("numberDouble", <<h>>) : h \in {3}}
    \cup {TimerOf("text", <<h>>) : h \in {-3, 3}}
    \cup {TimerOf("colon", v) : v \in {<<0, 3>>, <<-2, 3>>, <<0, 0, 2>>}}

\* Timers that give no number: missing, NaN, blank and unreadable
NumberlessTimers ==
    {NoTimer, TimerOf("nanDouble", <<>>), TimerOf("empty", <<>>), TimerOf("garbage", <<>>)}

RichLayers ==
    {NullLayer}
    \cup {LayerOf(t, Null, <<>>) : t \in NumericTimers}
    \cup {LayerOf(t, Num(50), <<>>) : t \in {TimerOf("number", <<0>>), TimerOf("number", <<3>>)}}
    \cup {LayerOf(t, p, <<>>) : t \in NumberlessTimers, p \in {Null, Num(0), Num(25), Num(50), Num(-50)}}
    \cup {LayerOf(t, Null, <<25>>) : t \in NumberlessTimers}

\* Layers of the plain kind: no duration, or a whole number of seconds
PlainLayers ==
    {LayerOf(NoTimer, Num(0), <<>>)}
    \cup {LayerOf(TimerOf("number", <<2 * n>>), Num(50), <<>>) : n \in {0, MaxTimer}}

SeqsUpTo(S, n) == UNION {[1..k -> S] : k \in 0..n}

BunkerOf(layers, flow) == [nul |-> FALSE, layers |-> layers, flow |-> flow]
NullBunker == [nul |-> TRUE, layers |-> <<>>, flow |-> Null]

\* One bunker of one layer of any kind, with and without a capacity and a flow
RichBlends ==
    {[hasBunkers |-> TRUE, bunkers |-> <<BunkerOf(<<L>>, bf)>>, bunkerCapacity |-> cap, flows |-> fl,
      rows |-> <<>>, totalFlow |-> Null, generation |-> Null] :
        L \in RichLayers,
        bf \in {Null, Num(3600)},
        cap \in {Null, Num(1)},
        fl \in {<<>>, <<Null>>, <<Num(0)>>, <<Num(1200)>>}}

\* Two bunkers of plain layers: up to MaxLayers in the first, up to one in the second
PlainBlends ==
    {[hasBunkers |-> TRUE, bunkers |-> <<BunkerOf(l1, Null), BunkerOf(l2, Null)>>,
      bunkerCapacity |-> Null, flows |-> <<>>,
      rows |-> <<>>, totalFlow |-> Null, generation |-> Null] :
        l1 \in SeqsUpTo(PlainLayers, MaxLayers), l2 \in SeqsUpTo(PlainLayers, 1)}

\* {} (what refreshAndRender passes when no blend was fetched), and a blend
\* with a missing bunker
OddBlends ==
    {[hasBunkers |-> FALSE, bunkers |-> <<>>, bunkerCapacity |-> Null, flows |-> <<>>,
      rows |-> <<>>, totalFlow |-> Null, generation |-> Null],
     [hasBunkers |-> TRUE,
      bunkers |-> <<NullBunker, BunkerOf(<<LayerOf(TimerOf("number", <<2>>), Null, <<>>)>>, Null)>>,
      bunkerCapacity |-> Null, flows |-> <<>>,
      rows |-> <<>>, totalFlow |-> Null, generation |-> Null]}

\* window.COAL_DB: what GET /api/coal answered
CoalEntry(id, coal, gcv, color) ==
    [nul |-> FALSE, _id |-> id, id |-> "", coal |-> coal, name |-> "", gcv |-> gcv,
     color |-> color]

COAL_DB ==
    << CoalEntry("id1", " Alpha ", Num(4000), "#111111"),
       CoalEntry("id2", "Beta", Num(5000), ""),
       CoalEntry("id3", "Gamma", Null, "") >>

\* A layer as the server stores it: a gcv and a coal, drained in one second
GcvLayer(gcv, coal) ==
    [LayerOf(TimerOf("number", <<2>>), Num(50), <<>>) EXCEPT !.gcv = gcv, !.coal = coal]

GcvLayers == {GcvLayer(g, c) : g \in {Null, Num(3000), Num(6000)}, c \in {"", "ALPHA"}}

ClientRow(coal, percentages, gcv) ==
    [nul |-> FALSE, coal |-> coal, pctIsArray |-> TRUE, percentages |-> percentages,
     percent |-> Null, gcv |-> gcv]

\* Two bunkers that flow: two layers with or without a gcv and a coal in the
\* first, one layer without a timer in the second, with and without rows
GcvBlends ==
    {[hasBunkers |-> TRUE,
      bunkers |-> <<BunkerOf(<<top, bottom>>, Null),
                    BunkerOf(<<[LayerOf(NoTimer, Num(50), <<>>) EXCEPT !.coal = c2]>>, Null)>>,
      bunkerCapacity |-> Null, flows |-> <<Num(10), Num(30)>>,
      rows |-> rows, totalFlow |-> tf, generation |-> Num(100)] :
        top \in GcvLayers,
        bottom \in {GcvLayer(Num(3000), ""), GcvLayer(Null, "id2"), GcvLayer(Null, "")},
        c2 \in {"id2"},
        rows \in {<<>>, <<ClientRow([isMap |-> FALSE, ref |-> "Beta", map |-> <<>>],
                                    <<Num(50), Num(50)>>, Null),
                          ClientRow([isMap |-> TRUE, ref |-> "", map |-> <<"id1", "">>],
                                    <<Num(0), Num(50)>>, Num(7000))>>},
        tf \in {Null, Num(40)}}

BlendInputs == RichBlends \cup PlainBlends \cup OddBlends \cup GcvBlends

\* What GET /api/coal can answer: the coals with a colour on Alpha, the coals
\* without colours, and one entry known by an id with a colour
CoalDBInputs ==
    {COAL_DB,
     [i \in 1..Len(COAL_DB) |-> [COAL_DB[i] EXCEPT !.color = ""]],
     <<[CoalEntry("", "", Null, "#333333") EXCEPT !.id = "id1"]>>}

NoColours == [k \in ColorKeys |-> ""]

\* What localStorage can hold when the page loads: nothing, another colour
\* for Alpha, and all the colours of the palette
ColorMapInputs ==
    {NoColours,
     [NoColours EXCEPT !["alpha"] = "#222222"],
     [k \in ColorKeys |->
        CASE k = "k1" -> DEFAULT_COAL_COLORS[1] [] k = "k2" -> DEFAULT_COAL_COLORS[2]
          [] k = "k3" -> DEFAULT_COAL_COLORS[3] [] k = "k4" -> DEFAULT_COAL_COLORS[4]
          [] k = "k5" -> DEFAULT_COAL_COLORS[5] [] k = "k6" -> DEFAULT_COAL_COLORS[6]
          [] k = "k7" -> DEFAULT_COAL_COLORS[7] [] k = "k8" -> DEFAULT_COAL_COLORS[8]
          [] OTHER -> ""]}

\* The names and ids findCoalColor is asked for
ColourArgs == {"", "Alpha", " Alpha ", "Beta", "Mystery", "id1"}

\* The blends updateBlend is called with
UpdateInputs ==
    OddBlends
    \cup {bl \in PlainBlends : \A i \in 1..2 : Len(bl.bunkers[i].layers) <= 1}
    \cup {bl \in RichBlends : bl.bunkerCapacity = Num(1) /\ bl.flows = <<Num(1200)>>
                               /\ bl.bunkers[1].flow = Null
                               /\ bl.bunkers[1].layers \in {<<LayerOf(NoTimer, Num(50), <<>>)>>}}

----------------------------------------------------------------------------
(* The binder's operations *)

\* new NextBlendBinder(bl): the state the constructor leaves
Constructed(bl) ==
    LET seqs == buildSequencesFromBlend(bl)
        a == [b1 \in 1..Len(seqs) |-> resetBunker(seqs[b1]).a]
        r == [b1 \in 1..Len(seqs) |-> resetBunker(seqs[b1]).r]
        d == maybeDispatch(FALSE, a, r, Null)
    IN /\ blend = bl
       /\ sequences = seqs
       /\ activeIdx = a
       /\ remaining = r
       /\ tickHandle = Null
       /\ lastSnapshot = d.last
       /\ events = d.events

InitBinder ==
    /\ \E bl \in BlendInputs : Constructed(bl)
    /\ timers = {}

\* updateBlend(newBlend)
UpdateBlend(newBlend) ==
    LET newSeq == buildSequencesFromBlend(newBlend)
        a == [b1 \in 1..Len(newSeq) |-> resetBunker(newSeq[b1]).a]
        r == [b1 \in 1..Len(newSeq) |-> resetBunker(newSeq[b1]).r]
        d == maybeDispatch(FALSE, a, r, lastSnapshot)
    IN /\ blend' = newBlend
       /\ sequences' = newSeq
       /\ activeIdx' = a
       /\ remaining' = r
       /\ lastSnapshot' = d.last
       /\ events' = d.events
       /\ op' = "updateBlend"
       /\ UNCHANGED <<tickHandle, timers, serverVars, pageVars, formVars>>

\* setInterval: a handle no live timer has
FreshHandle == CHOOSE i \in 1..(Cardinality(timers) + 1) : i \notin timers

\* start() without its guard: an interval is set whether or not one is running
Start_NoGuard ==
    /\ op' = "start"
    /\ UNCHANGED <<serverVars, pageVars, formVars>>
    /\ LET d == maybeDispatch(TRUE, activeIdx, remaining, lastSnapshot) IN
       /\ tickHandle' = Num(FreshHandle)
       /\ timers' = timers \cup {FreshHandle}
       /\ lastSnapshot' = d.last
       /\ events' = d.events
       /\ UNCHANGED <<blend, sequences, activeIdx, remaining>>

\* start()
Start ==
    /\ op' = "start"
    /\ UNCHANGED <<serverVars, pageVars, formVars>>
    /\ IF tickHandle # Null
       THEN /\ events' = <<>>
            /\ UNCHANGED <<blend, sequences, activeIdx, remaining, tickHandle, lastSnapshot, timers>>
       ELSE LET d == maybeDispatch(TRUE, activeIdx, remaining, lastSnapshot) IN
            /\ tickHandle' = Num(FreshHandle)
            /\ timers' = timers \cup {FreshHandle}
            /\ lastSnapshot' = d.last
            /\ events' = d.events
            /\ UNCHANGED <<blend, sequences, activeIdx, remaining>>

\* stop()
Stop ==
    /\ op' = "stop"
    /\ UNCHANGED <<serverVars, pageVars, formVars>>
    /\ events' = <<>>
    /\ IF tickHandle # Null
       THEN /\ timers' = timers \ {Val(tickHandle)}
            /\ tickHandle' = Null
       ELSE UNCHANGED <<tickHandle, timers>>
    /\ UNCHANGED <<blend, sequences, activeIdx, remaining, lastSnapshot>>

\* _tick(), called by a live interval timer
Tick ==
    /\ timers # {}
    /\ activeIdx' = tickResult(sequences, activeIdx, remaining).a
    /\ remaining' = tickResult(sequences, activeIdx, remaining).r
    /\ lastSnapshot' = tickDispatch(tickResult(sequences, activeIdx, remaining), lastSnapshot).last
    /\ events' = tickDispatch(tickResult(sequences, activeIdx, remaining), lastSnapshot).events
    /\ op' = "tick"
    /\ UNCHANGED <<blend, sequences, tickHandle, timers, serverVars, pageVars, formVars>>

NextBinder ==
    \/ \E nb \in UpdateInputs : UpdateBlend(nb)
    \/ Start
    \/ Stop
    \/ Tick

vars == <<binderVars, serverVars, pageVars, formVars, op>>

----------------------------------------------------------------------------
(* The requests the server is sent *)

StrRef(ref) == [isMap |-> FALSE, ref |-> ref, map |-> <<>>]
MapRef(map) == [isMap |-> TRUE, ref |-> "", map |-> map]

NoOx == [k \in {OxKeys[j] : j \in 1..Len(OxKeys)} |-> Null]

RowOf(coal, percentages, gcv, cost, ox) ==
    [nul |-> FALSE, coal |-> coal, pctIsArray |-> TRUE, percentages |-> percentages,
     gcv |-> gcv, cost |-> cost, ox |-> ox]

\* A null in the rows array; the loops that read it as `row || {}` see no coal,
\* no percentages, no gcv and no cost
NullRow ==
    [nul |-> TRUE, coal |-> StrRef(""), pctIsArray |-> FALSE, percentages |-> <<>>,
     gcv |-> Null, cost |-> Null, ox |-> NoOx]

\* A row without a percentages array
BareRow ==
    [nul |-> FALSE, coal |-> StrRef("Alpha"), pctIsArray |-> FALSE, percentages |-> <<>>,
     gcv |-> Null, cost |-> Null, ox |-> NoOx]

PctA == <<R(100), R(50), Zero, Zero, Zero, Zero>>
PctB == <<Null, R(50), R(100), R(20), R(-10)>>

\* A coal per mill: keys "0".."5", "" where the object has no entry
PerMillCoal == MapRef(<<"Gamma", "id1", "", "Mystery", "Coke", "beta">>)

\* Coals by name in another case, by _id, per mill, without ash, and unknown
\* ones with and without oxides on the row itself; a null row; a row without
\* percentages
Rows ==
    {RowOf(StrRef("ALPHA"), PctA, Null, Null, [NoOx EXCEPT !["SiO2"] = R(40)]),
     RowOf(StrRef("id2"), PctB, R(4500), R(45), NoOx),
     RowOf(StrRef("Coke"), PctA, Null, Null, NoOx),
     RowOf(StrRef("Mystery"), PctB, Null, Null, [NoOx EXCEPT !["SiO2"] = R(40)]),
     RowOf(StrRef("Mystery"), PctA, R(4500), R(45), NoOx),
     RowOf(PerMillCoal, PctB, Null, Null, NoOx),
     NullRow, BareRow}

MaxRows == 2

FlowA == <<R(10), R(20), R(30), Zero, Null, R(5)>>
FlowB == <<R(5), R(-5), Zero, Zero>>

FlowInputs == {<<>>, FlowA, FlowB, <<Zero, R(10), Zero, Zero, Zero, Zero, R(99)>>}

GenerationInputs == {Null, Zero, R(200)}

RequestOf(rows, flows, generation) ==
    [rowsIsArray |-> TRUE, rows |-> rows, flowsIsArray |-> TRUE, flows |-> flows,
     generation |-> generation]

\* The arguments computeBlendMetrics is checked on
MetricRequests ==
    {RequestOf(rows, flows, g) :
        rows \in SeqsUpTo(Rows, MaxRows), flows \in FlowInputs, g \in GenerationInputs}

\* The bodies POST and PUT are sent: well-formed ones whose rows the handler
\* rewrites, one with a null row, and two whose rows or flows are no array
ServerRequests ==
    {RequestOf(<<RowOf(StrRef("id2"), PctA, Null, Null, NoOx),
                 RowOf(PerMillCoal, PctB, R(4500), Null, NoOx)>>, FlowA, R(200)),
     RequestOf(<<RowOf(StrRef("Mystery"), PctB, R(4500), R(45), NoOx)>>, FlowB, Null),
     RequestOf(<<NullRow>>, FlowA, R(200)),
     [RequestOf(<<>>, <<>>, Zero) EXCEPT !.rowsIsArray = FALSE],
     [RequestOf(<<>>, <<>>, Zero) EXCEPT !.flowsIsArray = FALSE]}

NoRequest == RequestOf(<<>>, <<>>, Null)
NoMetrics == <<>>

----------------------------------------------------------------------------
(* input.js: the form.  The value of a text box is a record [kind, n]: it   *)
(* is blank, a number n as typed, or a text parseFloat makes nothing of.    *)
(* A row of the form is a record [coalGlobal, cells, percentages, gcvBox,   *)
(* costBox]: the value of the row's select coalName<r>, of its six hidden   *)
(* inputs coal_cell_r<r>_m<m>, of its six percentage inputs and of its two  *)
(* boxes.                                                                   *)

Blank == [kind |-> "blank", n |-> 0]
Typed(n) == [kind |-> "number", n |-> n]
Garbage == [kind |-> "text", n |-> 0]

\* _parseFloatSafe: parseFloat, and 0 where that is NaN
parseFloatSafe(v) == IF v.kind = "number" THEN R(v.n) ELSE Zero

\* getCellCoalId(row, mill): the hidden input of the cell, else the row's select
getCellCoalId(fr, m) ==
    IF At(fr.cells, m) # "" THEN At(fr.cells, m)
    ELSE IF fr.coalGlobal # "" THEN fr.coalGlobal
    ELSE ""

\* perCellMap: an entry for each mill that has a coal id
perCellMapOf(fr) ==
    <<getCellCoalId(fr, 0), getCellCoalId(fr, 1), getCellCoalId(fr, 2),
      getCellCoalId(fr, 3), getCellCoalId(fr, 4), getCellCoalId(fr, 5)>>

anyPerCellOf(fr) ==
    \E m \in Mills : getCellCoalId(fr, m) # "" /\ getCellCoalId(fr, m) # fr.coalGlobal

coalFieldOf(fr) ==
    IF anyPerCellOf(fr) THEN MapRef(perCellMapOf(fr)) ELSE StrRef(fr.coalGlobal)

percentagesOf(fr) ==
    <<parseFloatSafe(At(fr.percentages, 0)), parseFloatSafe(At(fr.percentages, 1)),
      parseFloatSafe(At(fr.percentages, 2)), parseFloatSafe(At(fr.percentages, 3)),
      parseFloatSafe(At(fr.percentages, 4)), parseFloatSafe(At(fr.percentages, 5))>>

\* The row collectFormData pushes for a row of the form
collectRow(fr) ==
    RowOf(coalFieldOf(fr), percentagesOf(fr), parseFloatSafe(fr.gcvBox),
          parseFloatSafe(fr.costBox), NoOx)

RECURSIVE collectRows(_, _)
collectRows(f, r) ==
    IF r > Len(f.rows) THEN <<>> ELSE <<collectRow(f.rows[r])>> \o collectRows(f, r + 1)

RECURSIVE collectFlows(_, _)
collectFlows(f, i) ==
    IF i >= Len(f.flows) THEN <<>>
    ELSE <<parseFloatSafe(At(f.flows, i))>> \o collectFlows(f, i + 1)

\* collectFormData(): the payload, without its ts, which the server never reads
collectFormData(f) ==
    RequestOf(collectRows(f, 1), collectFlows(f, 0), parseFloatSafe(f.generation))

\* collectFormData() called on the form as it stands
Collect ==
    /\ request' = collectFormData(formEls)
    /\ op' = "collectFormData"
    /\ UNCHANGED <<blends, response, metrics, written, binderVars, pageVars, formVars>>

\* What the network does to a fetch: the answer arrives, the request never
\* reaches the server, or the server handles it and the answer is lost; and a
\* handler whose database fails answers 500
Networks == {"ok", "lostRequest", "lostResponse"}
Faults == {"ok", "lostRequest", "lostResponse", "serverError"}

\* fetchLatestBlendId(): data._id of GET /api/blend/latest, and null (0) when
\* the answer is not OK or the fetch throws
fetchLatestBlendId(net) ==
    IF net = "ok" /\ blends # <<>> THEN blends[latestOf].id ELSE 0

\* saveToServer forgetting the id it fetched when the save fails
idAfterSave_Forget(cached, used, outcome, returned) ==
    IF outcome = "ok" THEN (IF returned # 0 THEN returned ELSE used) ELSE cached

\* latestBlendId when saveToServer returns: cached is what it was on entry,
\* used what it was when the request was made, returned the id of the answer
idAfterSave(cached, used, outcome, returned) ==
    IF outcome = "ok" THEN (IF returned # 0 THEN returned ELSE used) ELSE used

\* saveToServer(), with what the network does to its two fetches
SaveToServer(getNet, saveNet) ==
    LET payload == collectFormData(formEls)
        fetched == IF latestBlendId = 0 THEN fetchLatestBlendId(getNet) ELSE 0
        used == IF latestBlendId # 0 THEN latestBlendId ELSE fetched
        method == IF used # 0 THEN "PUT" ELSE "POST"
    IN /\ IF saveNet = "lostRequest"
          THEN /\ op' = "saveToServer"
               /\ UNCHANGED <<serverVars, binderVars, pageVars>>
          ELSE IF saveNet = "serverError"
          THEN /\ op' = method
               /\ request' = payload
               /\ response' = Answer(500, 0)
               /\ UNCHANGED <<blends, metrics, written, binderVars, pageVars>>
          ELSE IF used # 0 THEN Put(used, payload) ELSE Post(payload)
       /\ LET outcome == IF saveNet \in {"lostRequest", "lostResponse"} THEN "error"
                         ELSE IF response'.status \in {200, 201} THEN "ok"
                         ELSE "notOk"
          IN /\ latestBlendId' = idAfterSave(latestBlendId, used, outcome, response'.id)
             /\ sent' = << [cached |-> latestBlendId, fetched |-> fetched, method |-> method,
                            id |-> used, outcome |-> outcome] >>
       /\ UNCHANGED formEls

\* The user fills in the form anew
EditForm(f) ==
    /\ formEls' = f
    /\ sent' = <<>>
    /\ op' = "input"
    /\ UNCHANGED <<latestBlendId, serverVars, binderVars, pageVars>>

\* The input page is loaded again
Reload ==
    /\ latestBlendId' = 0
    /\ sent' = <<>>
    /\ op' = "load"
    /\ UNCHANGED <<formEls, serverVars, binderVars, pageVars>>

----------------------------------------------------------------------------
(* The forms *)

CoalIds == {"", "id1", "id2"}

FormRow(g, cells, pct, gcvBox, costBox) ==
    [coalGlobal |-> g, cells |-> cells, percentages |-> pct, gcvBox |-> gcvBox,
     costBox |-> costBox]

PctTextA == <<Typed(100), Typed(50), Blank, Blank, Garbage, Blank>>
PctTextB == <<Blank, Typed(50), Typed(100), Typed(20), Blank, Blank>>

BlankFormRow == FormRow("", <<"", "", "", "", "", "">>, <<Blank, Blank, Blank, Blank, Blank, Blank>>, Blank, Blank)

\* Rows whose select and whose cells hold any of the coal ids or nothing (the
\* last four cells alike), with their boxes blank, filled or unreadable
FormRows ==
    {FormRow(g, <<a, b, c, c, c, c>>, p, boxes[1], boxes[2]) :
        g \in CoalIds, a \in CoalIds, b \in CoalIds, c \in CoalIds,
        p \in {PctTextA, PctTextB},
        boxes \in {<<Blank, Blank>>, <<Typed(4500), Typed(45)>>, <<Garbage, Blank>>}}

MaxFormRows == 2

RECURSIVE blankRows(_)
blankRows(k) == IF k = 0 THEN <<>> ELSE <<BlankFormRow>> \o blankRows(k - 1)

FormOf(rows, flows, generation) == [rows |-> rows, flows |-> flows, generation |-> generation]

FlowTexts == <<Typed(10), Typed(20), Typed(30), Blank, Garbage, Typed(5)>>

\* NUM_COAL_ROWS rows, the first of them filled in
FormInputs ==
    {FormOf(<<fr>> \o blankRows(k), FlowTexts, g) :
        fr \in FormRows, k \in 0..(MaxFormRows - 1), g \in {Typed(200)}}

NoForm == FormOf(<<>>, <<>>, Blank)

\* The forms that are saved: a coal by its select with blank boxes, and a coal
\* in every cell with the boxes filled in
SaveForms ==
    {FormOf(<<FormRow("id2", <<"", "", "", "", "", "">>, PctTextA, Blank, Blank)>>,
            FlowTexts, Typed(200)),
     FormOf(<<FormRow("", <<"id1", "id1", "id1", "id1", "id1", "id1">>, PctTextB,
                      Typed(4500), Typed(45)), BlankFormRow>>,
            FlowTexts, Blank)}

----------------------------------------------------------------------------
(* The specifications *)

\* Nothing has reached the server
InitServer ==
    /\ blends = <<>>
    /\ request = NoRequest
    /\ response = Answer(0, 0)
    /\ metrics = NoMetrics
    /\ written = 0

\* No colour was asked for
InitPage ==
    /\ COAL_COLOR_MAP = NoColours
    /\ paletteIndex = 0
    /\ windowCoalDB = COAL_DB
    /\ colour = [arg |-> "", result |-> ""]

\* The input page is not open
InitForm ==
    /\ formEls = NoForm
    /\ latestBlendId = 0
    /\ sent = <<>>

\* The dashboard has no binder to speak of: one built from {}
InitIdleBinder ==
    /\ Constructed([hasBunkers |-> FALSE, bunkers |-> <<>>, bunkerCapacity |-> Null, flows |-> <<>>,
      rows |-> <<>>, totalFlow |-> Null, generation |-> Null])
    /\ timers = {}

\* The dashboard: a binder built from any blend, then started, stopped, ticked
\* and updated
Init == InitBinder /\ InitServer /\ InitPage /\ InitForm /\ op = "new"

Spec == Init /\ [][NextBinder]_vars

\* The server: blends are posted, put and fetched
InitBlends == InitIdleBinder /\ InitServer /\ InitPage /\ InitForm /\ op = "listen"

NextServer ==
    \/ \E req \in ServerRequests : Post(req) /\ UNCHANGED formVars
    \/ \E id \in 1..(MaxBlends + 1), req \in ServerRequests : Put(id, req) /\ UNCHANGED formVars
    \/ GetLatest

ServerSpec == InitBlends /\ [][NextServer]_vars

\* The colours: the page loads with some map and some coalDB, coals are
\* looked up and coalDB is fetched again
InitColours ==
    /\ InitIdleBinder
    /\ InitServer
    /\ InitForm
    /\ COAL_COLOR_MAP \in ColorMapInputs
    /\ paletteIndex = 0
    /\ windowCoalDB \in CoalDBInputs
    /\ colour = [arg |-> "", result |-> ""]
    /\ op = "load"

NextColours ==
    \/ \E name \in ColourArgs : FindCoalColor(name)
    \/ \E db \in CoalDBInputs : RefreshCoalDB(db)

ColorSpec == InitColours /\ [][NextColours]_vars

\* computeBlendMetrics alone, called once on any rows, flows and generation
InitMetrics ==
    /\ InitIdleBinder
    /\ InitPage
    /\ InitForm
    /\ blends = <<>>
    /\ request \in MetricRequests
    /\ response = Answer(0, 0)
    /\ metrics = NoMetrics
    /\ written = 0
    /\ op = "call"

Compute ==
    /\ op = "call"
    /\ IF computeBlendMetricsThrows(request.rows)
       THEN /\ op' = "threw"
            /\ UNCHANGED metrics
       ELSE /\ op' = "returned"
            /\ metrics' = computeBlendMetrics(request.rows, request.flows, request.generation)
    /\ UNCHANGED <<blends, request, response, written, binderVars, pageVars, formVars>>

MetricsSpec == InitMetrics /\ [][Compute]_vars

\* The input page: the form is filled in somehow and collected
InitFilled ==
    /\ InitIdleBinder
    /\ InitServer
    /\ InitPage
    /\ formEls \in FormInputs
    /\ latestBlendId = 0
    /\ sent = <<>>
    /\ op = "load"

FormSpec == InitFilled /\ [][Collect]_vars

\* The input page and the server: the form is saved again and again, over a
\* network that loses requests and answers, and the page is loaded again
InitSave ==
    /\ InitIdleBinder
    /\ InitServer
    /\ InitPage
    /\ formEls \in SaveForms
    /\ latestBlendId = 0
    /\ sent = <<>>
    /\ op = "load"

NextSave ==
    \/ \E getNet \in Networks, saveNet \in Faults : SaveToServer(getNet, saveNet)
    \/ \E f \in SaveForms : EditForm(f)
    \/ Reload

SaveSpec == InitSave /\ [][NextSave]_vars

\* The countdown alone: the binder is started and ticks, nothing else is called.
\* The interval fires for as long as it is live, and refreshAndRender starts
\* the binder it creates.
FairNext == Start \/ Tick

FairSpec == Init /\ [][FairNext]_vars /\ WF_vars(Start) /\ WF_vars(Tick)

----------------------------------------------------------------------------
(* The claims *)

Bunkers == 0..(Len(sequences) - 1)

\* The indices after i of seq whose entry is not null
LaterValid(seq, i) == {k \in (i + 1)..(Len(seq) - 1) : At(seq, k) # Null}

MinOf(S) == CHOOSE x \in S : \A y \in S : x <= y
MaxOf(S) == CHOOSE x \in S : \A y \in S : x >= y

\* C1: a tick moves every bunker whose remaining is 0 to the smallest later
\* index whose sequence entry is not null, with that entry as remaining; where
\* there is no such index, activeIdx and remaining of the bunker become null.
C1_TickAdvances ==
    [][op' = "tick" =>
        \A b \in Bunkers :
            At(remaining, b) = Num(0) =>
                LET later == LaterValid(At(sequences, b), Val(At(activeIdx, b))) IN
                IF later # {}
                THEN /\ At(activeIdx', b) = Num(MinOf(later))
                     /\ At(remaining', b) = At(At(sequences, b), MinOf(later))
                ELSE /\ At(activeIdx', b) = Null
                     /\ At(remaining', b) = Null]_vars

\* A tick has just moved a bunker over a null entry to a later layer
C1_Witness ==
    /\ op = "tick"
    /\ \E b \in Bunkers :
          /\ At(activeIdx, b) # Null
          /\ Val(At(activeIdx, b)) >= 2
          /\ At(At(sequences, b), Val(At(activeIdx, b)) - 1) = Null
          /\ At(At(sequences, b), 0) # Null
          /\ At(remaining, b) = At(At(sequences, b), Val(At(activeIdx, b)))
          /\ Val(At(remaining, b)) > 0

\* The layers array of bunker b of the binder's blend
LayersOf(b) == bunkerLayers(blend, b)

\* The seconds of layer j (0 = first array element) of bunker b
DurationOf(b, j) ==
    layerSeconds(At(LayersOf(b), j), safeNum(blend.bunkerCapacity), getBunkerFlow(blend, b))

\* C2: sequences are bottom-to-top. Each sequence is as long as the bunker's
\* layers array and its entry k comes from layers[length-1-k]; after
\* construction the active layer is the last array element that has a
\* duration; getActiveLayer(b) is layers[length-1-activeIdx[b]], or null when
\* activeIdx[b] is null.
C2_BottomToTop ==
    \A b \in Bunkers :
        LET layers == LayersOf(b)
            n == Len(layers)
            timed == {j \in 0..(n - 1) : DurationOf(b, j) # Null}
        IN /\ Len(At(sequences, b)) = n
           /\ \A k \in 0..(n - 1) : At(At(sequences, b), k) = DurationOf(b, n - 1 - k)
           /\ op = "new" =>
                IF timed = {} THEN At(activeIdx, b) = Null
                ELSE At(activeIdx, b) = Num(n - 1 - MaxOf(timed))
           /\ getActiveLayer(blend, activeIdx, b) =
                IF At(activeIdx, b) = Null THEN NullLayer
                ELSE At(layers, n - 1 - Val(At(activeIdx, b)))

\* A binder was built from a bunker whose first and last layers have different
\* durations, and the last one is active
C2_Witness ==
    /\ op = "new"
    /\ \E b \in Bunkers :
          /\ Len(LayersOf(b)) >= 2
          /\ DurationOf(b, 0) # DurationOf(b, Len(LayersOf(b)) - 1)
          /\ DurationOf(b, 0) # Null
          /\ At(activeIdx, b) = Num(0)
          /\ getActiveLayer(blend, activeIdx, b) # At(LayersOf(b), 0)

\* What `taken from the timer' gives for a parsed timer: Math.max(0, Math.floor(tsec))
FromTimer(tsec) == IF tsec = NaN THEN NaN ELSE Num(Max(0, Val(tsec) \div 2))

\* The percent-derived seconds of layer L of bunker b
FromPercent(L, b) ==
    LET cap == safeNum(blend.bunkerCapacity)
        flow == getBunkerFlow(blend, b)
    IN IF layerPct(L) # 0 /\ cap # Null /\ flow # Null /\ Val(flow) > 0
       THEN Num(Max(0, CeilDiv(layerPct(L) * Val(cap) * 3600, 100 * Val(flow))))
       ELSE Null

\* The active index of a bunker never names a null entry
ActiveHasDuration ==
    \A b \in Bunkers :
        At(activeIdx, b) # Null => At(At(sequences, b), Val(At(activeIdx, b))) # Null

\* C3 as stated: the timer is used whenever parseTimerToSeconds is not null
C3_TimerWheneverNonNull ==
    /\ ActiveHasDuration
    /\ \A b \in Bunkers : \A j \in 0..(Len(LayersOf(b)) - 1) :
          LET L == At(LayersOf(b), j)
              entry == At(At(sequences, b), Len(LayersOf(b)) - 1 - j)
          IN IF L.nul THEN entry = Null
             ELSE IF parseTimerToSeconds(L.timer) # Null
                  THEN entry = FromTimer(parseTimerToSeconds(L.timer))
                  ELSE entry = FromPercent(L, b)

\* C3, amended: the timer is used when parseTimerToSeconds is neither null nor
\* NaN (floored, clamped at 0, whatever the percent, capacity and flow);
\* otherwise a non-zero percent with a capacity and a positive flow gives
\* ceil((percent/100) * capacity / flow * 3600) clamped at 0; every other entry
\* is null, and no null entry is ever active.
C3_Duration ==
    /\ ActiveHasDuration
    /\ \A b \in Bunkers : \A j \in 0..(Len(LayersOf(b)) - 1) :
          LET L == At(LayersOf(b), j)
              entry == At(At(sequences, b), Len(LayersOf(b)) - 1 - j)
              tsec == parseTimerToSeconds(L.timer)
          IN IF L.nul THEN entry = Null
             ELSE IF tsec # Null /\ tsec # NaN
                  THEN entry = FromTimer(tsec)
                  ELSE entry = FromPercent(L, b)

\* A layer without a timer whose seconds come from its percent and are rounded up
C3_Witness ==
    \E b \in Bunkers :
        /\ Len(LayersOf(b)) = 1
        /\ At(LayersOf(b), 0).timer.kind = "nanDouble"
        /\ At(LayersOf(b), 0).percent = Num(50)
        /\ blend.bunkerCapacity = Num(1)
        /\ getBunkerFlow(blend, b) = Num(1200)
        /\ At(At(sequences, b), 0) = Num(2)
        /\ At(activeIdx, b) = Num(0)

\* C4: a tick or an updateBlend that leaves activeIdx or remaining different
\* dispatches a 'nextBlend:updated' event whose detail is the binder's
\* activeIdx and remaining as the operation leaves them, all bunkers processed.
C4_ChangeDispatches ==
    [][(op' \in {"tick", "updateBlend"} /\ <<activeIdx, remaining>>' # <<activeIdx, remaining>>) =>
        /\ Len(events') = 1
        /\ events'[1] = [activeIdx |-> activeIdx', remaining |-> remaining']]_vars

\* A tick on two bunkers advanced one to its next layer, and dispatched
C4_Witness ==
    /\ op = "tick"
    /\ Len(sequences) = 2
    /\ Len(events) = 1
    /\ \E b \in Bunkers :
          /\ At(activeIdx, b) # Null
          /\ Val(At(activeIdx, b)) >= 1
          /\ At(remaining, b) = At(At(sequences, b), Val(At(activeIdx, b)))
          /\ Val(At(remaining, b)) > 0

\* C5: a tick takes exactly 1 from a remaining above 0 and leaves that bunker's
\* activeIdx alone; it leaves a bunker whose remaining is null alone; and what
\* it does to a bunker is what it does to that bunker taken alone.
C5_TickFrame ==
    [][op' = "tick" =>
        \A b \in Bunkers :
            LET alone == tickResult(<<At(sequences, b)>>, <<At(activeIdx, b)>>,
                                    <<At(remaining, b)>>)
            IN /\ (At(remaining, b) # Null /\ Val(At(remaining, b)) > 0) =>
                     /\ At(remaining', b) = Num(Val(At(remaining, b)) - 1)
                     /\ At(activeIdx', b) = At(activeIdx, b)
               /\ At(remaining, b) = Null =>
                     /\ At(remaining', b) = Null
                     /\ At(activeIdx', b) = At(activeIdx, b)
               /\ At(activeIdx', b) = alone.a[1]
               /\ At(remaining', b) = alone.r[1]]_vars

\* A tick has counted one bunker down while the first bunker is null
C5_Witness ==
    /\ op = "tick"
    /\ Len(sequences) = 2
    /\ At(remaining, 0) = Null
    /\ At(remaining, 1) # Null
    /\ Val(At(remaining, 1)) < Val(At(At(sequences, 1), Val(At(activeIdx, 1))))

AllNull == \A b \in Bunkers : At(activeIdx, b) = Null /\ At(remaining, b) = Null

\* C6: with ticks occurring and no updateBlend, every bunker ends with
\* activeIdx and remaining null, and from there a tick changes nothing of
\* the binder and dispatches nothing.
C6_CountdownEnds ==
    /\ <>[]AllNull
    /\ [][(AllNull /\ op' = "tick") =>
            /\ UNCHANGED <<blend, sequences, activeIdx, remaining, lastSnapshot>>
            /\ events' = <<>>]_vars

\* A countdown over several layers has run out
C6_Witness ==
    /\ op = "tick"
    /\ AllNull
    /\ \E b \in Bunkers :
          Cardinality({k \in 0..(Len(At(sequences, b)) - 1) : At(At(sequences, b), k) # Null}) >= 2

----------------------------------------------------------------------------
(* C7 *)

\* What computeBlendMetrics returns for the sanitized rows, the flows and the
\* generation of a request
MetricsOfRequest(req) ==
    computeBlendMetrics(rowsToSaveOf(req.rows), req.flows, req.generation)

StoresMetrics(doc, m) ==
    /\ doc.totalFlow = m.totalFlow
    /\ doc.avgGCV = m.avgGCV
    /\ doc.avgAFT = m.avgAFT
    /\ doc.heatRate = m.heatRate
    /\ doc.costRate = m.costRate
    /\ doc.bunkers = m.bunkers

\* The step created exactly one record, storing the metrics of the request,
\* and answered 201 with its id
PostCreated ==
    /\ Len(blends') = Len(blends) + 1
    /\ SubSeq(blends', 1, Len(blends)) = blends
    /\ \A i \in 1..Len(blends) : blends[i].id # blends'[Len(blends')].id
    /\ StoresMetrics(blends'[Len(blends')], MetricsOfRequest(request'))
    /\ response' = Answer(201, blends'[Len(blends')].id)

\* The step replaced the metrics of the record it answers with, and created
\* and touched no other
PutReplaced ==
    /\ Len(blends') = Len(blends)
    /\ \E i \in 1..Len(blends) :
          /\ blends[i].id = response'.id
          /\ blends'[i].id = blends[i].id
          /\ StoresMetrics(blends'[i], MetricsOfRequest(request'))
          /\ \A j \in 1..Len(blends) : j # i => blends'[j] = blends[j]

NoNullRow(req) == \A i \in 1..Len(req.rows) : ~req.rows[i].nul

\* C7: every POST whose body has array rows and array flows creates exactly
\* one record storing what computeBlendMetrics returns for the sanitized
\* rows, the flows and the generation, and answers 201 with its id; every PUT
\* answered 200 replaces those fields of the existing record and creates none.
C7_StoresMetrics ==
    [][ /\ (op' = "POST" /\ request'.rowsIsArray /\ request'.flowsIsArray) => PostCreated
        /\ (op' = "PUT" /\ response'.status = 200) => PutReplaced ]_vars

\* C7 for the requests none of whose rows is null; one with a null row is
\* answered 500 and stores nothing
C7_ObjectRowsStored ==
    [][ /\ (op' = "POST" /\ request'.rowsIsArray /\ request'.flowsIsArray) =>
              IF NoNullRow(request') THEN PostCreated
              ELSE response' = Answer(500, 0) /\ blends' = blends
        /\ (op' = "PUT" /\ response'.status = 200) => PutReplaced ]_vars

\* A POST with array rows and array flows that was answered 500 and stored nothing
C7_Witness ==
    /\ op = "POST"
    /\ request.rowsIsArray /\ request.flowsIsArray
    /\ ~NoNullRow(request)
    /\ response.status = 500
    /\ blends = <<>>

\* A POST that stored metrics the rows as sent would not have given, and a PUT
\* that replaced them
C7_Stored ==
    /\ op = "PUT"
    /\ response.status = 200
    /\ Len(blends) = 2
    /\ \E i \in 1..2 :
          /\ blends[i].id = response.id
          /\ blends[i].avgGCV # Zero
          /\ blends[i].avgGCV #
                computeBlendMetrics(request.rows, request.flows, request.generation).avgGCV

----------------------------------------------------------------------------
(* C8, C9, C10 *)

\* The sum of f[x] over the x of S
RECURSIVE SumOver(_, _)
SumOver(f, S) ==
    IF S = {} THEN Zero
    ELSE LET x == CHOOSE y \in S : TRUE
         IN RAdd(f[x], SumOver(f, S \ {x}))

RowsOf(req) == 1..Len(req.rows)

\* The sum over the 6 mills of flows[m] * blendedGCVPerMill[m]
FlowTimesGCV ==
    SumOver([m \in Mills |-> RMul(flowOf(request.flows, m), At(metrics.blendedGCVPerMill, m))],
            Mills)

\* C8: blendedGCVPerMill[m] is the sum over the rows of rowGcv * percentages[m]
\* / 100, totalFlow is the sum of flows[0..5], avgGCV * totalFlow is the sum
\* over the mills of flows[m] * blendedGCVPerMill[m] when totalFlow > 0, and
\* avgGCV is 0 otherwise.
C8_FlowWeightedGCV ==
    op = "returned" =>
        /\ \A m \in Mills :
              At(metrics.blendedGCVPerMill, m) =
                  SumOver([i \in RowsOf(request) |->
                              RDiv(RMul(gcvVal(request.rows[i], m), percOf(request.rows[i], m)),
                                   R(100))],
                          RowsOf(request))
        /\ metrics.totalFlow = SumOver([m \in Mills |-> flowOf(request.flows, m)], Mills)
        /\ IF RPos(metrics.totalFlow)
           THEN RMul(metrics.avgGCV, metrics.totalFlow) = FlowTimesGCV
           ELSE metrics.avgGCV = Zero

\* Two rows, two mills of different blended GCV that both flow, and an average
\* that is the blended GCV of neither
C8_Witness ==
    /\ op = "returned"
    /\ Len(request.rows) = 2
    /\ RPos(metrics.totalFlow)
    /\ \E m, n \in Mills :
          /\ RPos(flowOf(request.flows, m)) /\ RPos(flowOf(request.flows, n))
          /\ At(metrics.blendedGCVPerMill, m) # At(metrics.blendedGCVPerMill, n)
          /\ metrics.avgGCV # At(metrics.blendedGCVPerMill, m)
          /\ metrics.avgGCV # At(metrics.blendedGCVPerMill, n)

\* C9: heatRate is null unless generation > 0 and totalFlow > 0; otherwise
\* heatRate * generation is totalFlow * avgGCV, the sum over the 6 mills of
\* flows[m] * blendedGCVPerMill[m].
C9_HeatRate ==
    op = "returned" =>
        IF request.generation # Null /\ RPos(request.generation) /\ RPos(metrics.totalFlow)
        THEN /\ metrics.heatRate # Null
             /\ RMul(metrics.heatRate, request.generation) =
                    RMul(metrics.totalFlow, metrics.avgGCV)
             /\ RMul(metrics.heatRate, request.generation) = FlowTimesGCV
        ELSE metrics.heatRate = Null

\* A heat rate that is a number other than 0
C9_Witness ==
    /\ op = "returned"
    /\ metrics.heatRate # Null
    /\ RPos(metrics.heatRate)
    /\ metrics.heatRate # metrics.avgGCV

\* The oxides of the coal of a row in mill m, summed: those of the coal
\* document, else those the row carries
RowOxides(row, m) ==
    LET coalDoc == findCoalRef(coalRefForRowAndMill(row, m))
        keys == {OxKeys[j] : j \in 1..Len(OxKeys)}
    IN SumOver([k \in keys |->
                   IF coalDoc # NoCoal THEN coalDoc[k]
                   ELSE IF row.ox[k] # Null THEN row.ox[k] ELSE Zero], keys)

\* The percentage-weighted oxide total of mill m
OxideTotal(m) ==
    SumOver([i \in RowsOf(request) |->
                RDiv(RMul(RowOxides(request.rows[i], m), percOf(request.rows[i], m)), R(100))],
            RowsOf(request))

\* The mills whose AFT is not null
MillsWithAFT == {m \in Mills : At(metrics.aftPerMill, m) # Null}

\* C10: aftPerMill[m] is null exactly when the percentage-weighted oxide total
\* of mill m is 0; avgAFT is the flow-weighted mean of aftPerMill over the
\* mills whose AFT is not null, and null when their summed flow is not above 0.
C10_AFT ==
    op = "returned" =>
        /\ \A m \in Mills : (At(metrics.aftPerMill, m) = Null) <=> (OxideTotal(m) = Zero)
        /\ LET flowWithAFT == SumOver([m \in MillsWithAFT |-> flowOf(request.flows, m)],
                                      MillsWithAFT)
           IN IF RPos(flowWithAFT)
              THEN /\ metrics.avgAFT # Null
                   /\ RMul(metrics.avgAFT, flowWithAFT) =
                          SumOver([m \in MillsWithAFT |->
                                      RMul(flowOf(request.flows, m), At(metrics.aftPerMill, m))],
                                  MillsWithAFT)
              ELSE metrics.avgAFT = Null

\* A mill without AFT that flows, two mills of different AFT that flow, and an
\* average between them
C10_Witness ==
    /\ op = "returned"
    /\ metrics.avgAFT # Null
    /\ \E m \in Mills : At(metrics.aftPerMill, m) = Null /\ RPos(flowOf(request.flows, m))
    /\ \E m, n \in MillsWithAFT :
          /\ RPos(flowOf(request.flows, m)) /\ RPos(flowOf(request.flows, n))
          /\ RLess(At(metrics.aftPerMill, m), metrics.avgAFT)
          /\ RLess(metrics.avgAFT, At(metrics.aftPerMill, n))

----------------------------------------------------------------------------
(* C11 *)

\* The positions (from 0) of the rows whose percentages[m] is above 0
RowsIn(m) ==
    {i \in 0..(Len(request.rows) - 1) :
        /\ At(request.rows, i).pctIsArray
        /\ m < Len(At(request.rows, i).percentages)
        /\ At(At(request.rows, i).percentages, m) # Null
        /\ RPos(At(At(request.rows, i).percentages, m))}

\* The first 6 of the flows
FirstFlows == SubSeq(request.flows, 1, IF Len(request.flows) < NumMills THEN Len(request.flows) ELSE NumMills)

----------------------------------------------------------------------------
(* C12 *)

\* The positions of the blends no stored blend was created after
Newest == {i \in 1..Len(blends) : \A j \in 1..Len(blends) : blends[j].createdAt <= blends[i].createdAt}

\* C12: GET /api/blend/latest answers 404 when no blend is stored and else
\* returns the stored blend of greatest createdAt; PUT changes no createdAt,
\* so the blend returned is always the one created last, whichever was
\* updated last.
C12_LatestIsNewest ==
    [][ /\ op' = "GET" =>
              IF blends = <<>> THEN response'.status = 404
              ELSE /\ response'.status = 200
                   /\ \E i \in Newest : blends[i].id = response'.id
                   /\ response'.id = blends[Len(blends)].id
        /\ op' = "PUT" =>
              /\ Len(blends') = Len(blends)
              /\ \A i \in 1..Len(blends) : blends'[i].createdAt = blends[i].createdAt
      ]_vars

\* GET returned the blend created last although an older one was written last
C12_Witness ==
    /\ op = "GET"
    /\ response.status = 200
    /\ Len(blends) = 2
    /\ response.id = blends[2].id
    /\ written = blends[1].id

----------------------------------------------------------------------------
(* C13 *)

\* The gcv of the active layer of bunker b of a binder, when the binder has an
\* active layer there and its gcv is a number; else null
ActiveGcv(bl, a, b) ==
    LET L == getActiveLayer(bl, a, b)
    IN IF ~L.nul /\ L.gcv # Null /\ L.gcv # NaN THEN L.gcv ELSE Null

\* The sum over the bunkers that have a flow and a GCV of flow * GCV, the GCV
\* of a bunker being that of the binder's active layer when that is a number
WeightedBottomGcv(bl, a) ==
    SumOver([b \in 0..(bunkerCount(bl) - 1) |->
                LET g == IF ActiveGcv(bl, a, b) # Null THEN ActiveGcv(bl, a, b)
                         ELSE getBottomGcvForBunker(bl, COAL_DB, a, b)
                IN IF getBunkerFlow(bl, b) # Null /\ g # Null
                   THEN R(Val(getBunkerFlow(bl, b)) * Val(g)) ELSE Zero],
            0..(bunkerCount(bl) - 1))

\* C13 in a state: where the binder has an active layer with a numeric gcv,
\* getBottomGcvForBunker returns that gcv, and computeDerivedMetrics weighs
\* the bunker's flow with it
PrefersBinder(bl, a) ==
    /\ \A b \in 0..(bunkerCount(bl) - 1) :
          ActiveGcv(bl, a, b) # Null =>
              getBottomGcvForBunker(bl, COAL_DB, a, b) = ActiveGcv(bl, a, b)
    /\ LET d == computeDerivedMetrics(bl, COAL_DB, a)
       IN d.avgGCV # Null => RMul(d.avgGCV, d.totalFlow) = WeightedBottomGcv(bl, a)

\* C13: getBottomGcvForBunker returns the gcv of the binder's active layer
\* whenever there is one with a numeric gcv, and on the tick that advances a
\* bunker's active index the GCV of the bunker in computeDerivedMetrics
\* becomes the gcv of the layer advanced to.
C13_PrefersBinder ==
    /\ []PrefersBinder(blend, activeIdx)
    /\ [][ op' = "tick" =>
             \A b \in Bunkers :
                (/\ At(activeIdx', b) # At(activeIdx, b)
                 /\ At(activeIdx', b) # Null
                 /\ ActiveGcv(blend', activeIdx', b) # Null) =>
                    /\ getBottomGcvForBunker(blend', COAL_DB, activeIdx', b) =
                          At(LayersOf(b), Len(LayersOf(b)) - 1 - Val(At(activeIdx', b))).gcv
                    /\ PrefersBinder(blend', activeIdx')
         ]_vars

\* A tick advanced bunker 0 to a layer of another gcv than the layer below,
\* and the derived average moved with it
C13_Witness ==
    /\ op = "tick"
    /\ Len(activeIdx) = 2
    /\ At(activeIdx, 0) = Num(1)
    /\ Len(bunkerLayers(blend, 0)) = 2
    /\ At(bunkerLayers(blend, 0), 0).gcv = Num(6000)
    /\ At(bunkerLayers(blend, 0), 1).gcv = Num(3000)
    /\ getBottomGcvForBunker(blend, COAL_DB, activeIdx, 0) = Num(6000)
    /\ getBottomGcvForBunker_NoBinder(blend, COAL_DB, activeIdx, 0) = Num(3000)
    /\ computeDerivedMetrics(blend, COAL_DB, activeIdx).avgGCV # Null
    /\ computeDerivedMetrics(blend, COAL_DB, activeIdx).avgGCV #
          computeDerivedMetrics(blend, COAL_DB, <<Num(0), Null>>).avgGCV

----------------------------------------------------------------------------
(* C14 *)

\* C14: a call of findCoalColor for a coal whose windowCoalDB entry has a colour
\* returns that colour, whatever COAL_COLOR_MAP holds for the coal, and a
\* palette colour is assigned only when neither has one.
C14_ExplicitColourFirst ==
    [][ op' = "findCoalColor" =>
          LET X == explicitColour(colour'.arg, windowCoalDB)
              Y == COAL_COLOR_MAP[normalizeKey(colour'.arg)]
          IN /\ X # "" => colour'.result = X
             /\ (X # "" \/ Y # "") => colour'.result \in {X, Y}
      ]_vars

\* What the code does: the colour of the map when it has one, else the colour
\* of the entry, else a colour of the palette
C14_MapFirst ==
    [][ (op' = "findCoalColor" /\ colour'.arg # "") =>
          LET X == explicitColour(colour'.arg, windowCoalDB)
              Y == COAL_COLOR_MAP[normalizeKey(colour'.arg)]
          IN /\ colour'.result = IF Y # "" THEN Y
                                 ELSE IF X # "" THEN X
                                 ELSE colour'.result
             /\ (X = "" /\ Y = "") =>
                    \E i \in 1..Len(DEFAULT_COAL_COLORS) : colour'.result = DEFAULT_COAL_COLORS[i]
             /\ COAL_COLOR_MAP'[normalizeKey(colour'.arg)] = colour'.result
      ]_vars

\* findCoalColor returned another colour than the one on the coal's entry
C14_Witness ==
    /\ op = "findCoalColor"
    /\ explicitColour(colour.arg, windowCoalDB) = "#111111"
    /\ colour.result # ""
    /\ colour.result # "#111111"

\* The coal ids of the six mills of a row of the form
CellIds(fr) == {getCellCoalId(fr, m) : m \in Mills}

\* C15: a row's coal is a single string (the shared coal id) when all six
\* mills of the row have the same coal id, and an object from mill index to
\* coal id when they do not
C15_SharedCoalIsString ==
    op = "collectFormData" =>
        \A r \in 1..Len(formEls.rows) :
            LET fr == formEls.rows[r]
                coal == request.rows[r].coal
            IN IF Cardinality(CellIds(fr)) = 1
               THEN ~coal.isMap /\ coal.ref \in CellIds(fr)
               ELSE coal.isMap /\ \A m \in Mills : At(coal.map, m) = getCellCoalId(fr, m)

\* What the code does: the coal is the value of the row's select unless a
\* cell holds another coal id than the select, and then it is the object, with
\* an entry for each mill that has a coal id
C15_StringIsSelect ==
    op = "collectFormData" =>
        \A r \in 1..Len(formEls.rows) :
            LET fr == formEls.rows[r]
                coal == request.rows[r].coal
            IN IF \A m \in Mills : At(fr.cells, m) \in {"", fr.coalGlobal}
               THEN ~coal.isMap /\ coal.ref = fr.coalGlobal /\ CellIds(fr) = {fr.coalGlobal}
               ELSE coal.isMap /\ \A m \in Mills : At(coal.map, m) = getCellCoalId(fr, m)

\* A row whose six cells all hold id1 while its select holds nothing was
\* collected as an object
C15_Witness ==
    /\ op = "collectFormData"
    /\ \E r \in 1..Len(formEls.rows) :
          /\ formEls.rows[r].coalGlobal = ""
          /\ \A m \in Mills : At(formEls.rows[r].cells, m) = "id1"
          /\ request.rows[r].coal.isMap

\* C16: updateBlend called with a blend identical to the binder's current one
\* does not restart the countdown: every bunker that is counting down keeps its
\* active layer and its remaining seconds
C16_IdenticalBlendKeepsCountdown ==
    [][ (op' = "updateBlend" /\ blend' = blend) =>
            \A b \in 0..(Len(sequences) - 1) :
                At(remaining, b) # Null =>
                    /\ At(activeIdx', b) = At(activeIdx, b)
                    /\ At(remaining', b) = At(remaining, b) ]_vars

\* What the code does: updateBlend leaves every bunker on the first layer of
\* its new sequence that has a duration, with all of that duration remaining,
\* whatever the countdown was
C16_AlwaysReset ==
    [][ op' = "updateBlend" =>
            \A b \in 0..(Len(sequences') - 1) :
                /\ At(activeIdx', b) = firstValidFrom(At(sequences', b), 0)
                /\ At(remaining', b) = IF At(activeIdx', b) = Null THEN Null
                                       ELSE At(At(sequences', b), Val(At(activeIdx', b))) ]_vars

\* The requests POST and PUT answered with the blend they wrote
Saved(o, resp) == o \in {"POST", "PUT"} /\ resp.status \in {200, 201}

\* The gcv and the cost the coal document says for a row that carries none
ResolvedGcv(row, m) ==
    IF row.gcv # Null THEN row.gcv ELSE findCoalRef(coalRefForRowAndMill(row, m)).gcv

ResolvedCost(row) ==
    IF row.cost # Null THEN row.cost
    ELSE IF row.coal.isMap THEN Zero
    ELSE findCoalRef(row.coal.ref).cost

\* The blended GCV of mill m and the cost rate that come of that
ResolvedBlendedGCV(rows, m) ==
    RSum([i \in 1..Len(rows) |->
            RMul(ResolvedGcv(rows[i], m), RDiv(percOf(rows[i], m), R(100)))])

ResolvedCostRate(rows) ==
    LET totalQty == RSum([i \in 1..Len(rows) |-> rowQtySum(rows[i])])
    IN IF RPos(totalQty)
       THEN RDiv(RSum([i \in 1..Len(rows) |->
                         RMul(rowQtySum(rows[i]), ResolvedCost(rows[i]))]), totalQty)
       ELSE Zero

\* C17: for the rows of a POST or PUT that carry no gcv (or cost), the
\* blendedGCVPerMill and the costRate the request computes use the gcv and the
\* cost of the coal document the row's coal refers to
C17_ResolvedFromCoalDoc ==
    [][ Saved(op', response') =>
            /\ \A m \in Mills :
                  At(metrics'.blendedGCVPerMill, m) = ResolvedBlendedGCV(request'.rows, m)
            /\ metrics'.costRate = ResolvedCostRate(request'.rows) ]_vars

\* The row's own gcv and cost, and 0 where it carries none
OwnGcv(row) == IF row.gcv # Null THEN row.gcv ELSE Zero

OwnCost(row) == IF row.cost # Null THEN row.cost ELSE Zero

OwnBlendedGCV(rows, m) ==
    RSum([i \in 1..Len(rows) |-> RMul(OwnGcv(rows[i]), RDiv(percOf(rows[i], m), R(100)))])

OwnCostRate(rows) ==
    LET totalQty == RSum([i \in 1..Len(rows) |-> rowQtySum(rows[i])])
    IN IF RPos(totalQty)
       THEN RDiv(RSum([i \in 1..Len(rows) |-> RMul(rowQtySum(rows[i]), OwnCost(rows[i]))]),
                 totalQty)
       ELSE Zero

\* What the code does: a row without a gcv (or cost) counts with 0, whatever
\* its coal document says
C17_MissingIsZero ==
    [][ Saved(op', response') =>
            /\ \A m \in Mills :
                  At(metrics'.blendedGCVPerMill, m) = OwnBlendedGCV(request'.rows, m)
            /\ metrics'.costRate = OwnCostRate(request'.rows) ]_vars

\* And the form never sends a row without a gcv or a cost: a blank box is sent as 0
C17_BlankBoxIsZero ==
    op = "collectFormData" =>
        \A r \in 1..Len(formEls.rows) :
            /\ formEls.rows[r].gcvBox = Blank => request.rows[r].gcv = Zero
            /\ formEls.rows[r].costBox = Blank => request.rows[r].cost = Zero

\* A POST stored a blend whose row of Beta (gcv 5000), sent without a gcv and
\* all of it in mill 0, left the blended GCV of mill 0 at 0
C17_Witness ==
    /\ op = "POST"
    /\ response.status = 201
    /\ Len(request.rows) >= 1
    /\ request.rows[1].gcv = Null
    /\ ~request.rows[1].coal.isMap
    /\ findCoalRef(request.rows[1].coal.ref).gcv = R(5000)
    /\ percOf(request.rows[1], 0) = R(100)
    /\ At(metrics.blendedGCVPerMill, 0) = Zero
    /\ At(blends[response.id].blendedGCVPerMill, 0) = Zero

\* C18: a POST or PUT answered with 400 or 404 leaves the stored blends and
\* all their fields as they were, and no PUT, whatever its answer, adds a blend
\* or removes one
C18_RejectedChangesNothing ==
    [][ /\ (op' \in {"POST", "PUT"} /\ response'.status \in {400, 404}) => blends' = blends
        /\ op' = "PUT" =>
              /\ Len(blends') = Len(blends)
              /\ \A i \in 1..Len(blends) : blends'[i].id = blends[i].id ]_vars

\* A PUT for an id no blend has was answered 404 while blends are stored
C18_Witness ==
    /\ op = "PUT"
    /\ response.status = 404
    /\ blends # <<>>

\* C19: saveToServer puts to the cached id, else to the id GET
\* /api/blend/latest returned, and posts only when there is neither; after an
\* OK answer latestBlendId is the id of the answer; after an answer that is
\* not OK or a network error latestBlendId is what it was before the call
C19_FailureKeepsId ==
    [][ sent' # <<>> =>
          LET s == sent'[1] IN
          /\ s.method = IF latestBlendId # 0 \/ s.fetched # 0 THEN "PUT" ELSE "POST"
          /\ s.id = IF latestBlendId # 0 THEN latestBlendId ELSE s.fetched
          /\ s.outcome = "ok" => latestBlendId' = response'.id
          /\ s.outcome # "ok" => latestBlendId' = latestBlendId ]_vars

\* The same, but after an answer that is not OK or a network error
\* latestBlendId is the id the request was made with: the cached one, else the
\* one GET /api/blend/latest returned, else null
C19_FailureKeepsUsedId ==
    [][ sent' # <<>> =>
          LET s == sent'[1] IN
          /\ s.fetched # 0 =>
                /\ latestBlendId = 0
                /\ \E i \in 1..Len(blends) :
                      /\ blends[i].id = s.fetched
                      /\ \A j \in 1..Len(blends) : blends[j].createdAt <= blends[i].createdAt
          /\ s.method = IF latestBlendId # 0 \/ s.fetched # 0 THEN "PUT" ELSE "POST"
          /\ s.id = IF latestBlendId # 0 THEN latestBlendId ELSE s.fetched
          /\ s.outcome = "ok" => latestBlendId' = response'.id /\ response'.id # 0
          /\ s.outcome # "ok" => latestBlendId' = s.id ]_vars

\* A save that found no cached id, was given one by GET /api/blend/latest,
\* and failed: latestBlendId is no longer null
C19_Witness ==
    /\ sent # <<>>
    /\ sent[1].cached = 0
    /\ sent[1].fetched # 0
    /\ sent[1].method = "PUT"
    /\ sent[1].outcome # "ok"
    /\ latestBlendId = sent[1].fetched

\* What an event says
Said(ev) == <<ev.activeIdx, ev.remaining>>

\* C20: the operations that dispatch without force (updateBlend and the tick)
\* never dispatch an event whose activeIdx and remaining are those of the event
\* dispatched last before it; so an updateBlend that leaves the binder on the
\* indices and seconds of that event dispatches nothing, and a tick of a binder
\* whose bunkers are all null dispatches nothing.  The last snapshot is what
\* the event dispatched last said.
C20_NoRepeatedEvent ==
    [][ /\ lastSnapshot' = IF events' = <<>> THEN lastSnapshot
                           ELSE Said(events'[Len(events')])
        /\ op' \in {"updateBlend", "tick"} =>
              /\ Len(events') <= 1
              /\ \A i \in 1..Len(events') : Said(events'[i]) # lastSnapshot
        /\ (op' = "updateBlend" /\ <<activeIdx', remaining'>> = lastSnapshot) => events' = <<>>
        /\ (op' = "tick" /\ \A b \in 0..(Len(sequences) - 1) :
                               At(activeIdx, b) = Null /\ At(remaining, b) = Null)
              => events' = <<>> ]_vars

\* An updateBlend left a bunker counting down as the last event said, and
\* dispatched nothing
C20_Witness ==
    /\ op = "updateBlend"
    /\ events = <<>>
    /\ lastSnapshot = <<activeIdx, remaining>>
    /\ \E b \in 0..(Len(sequences) - 1) : At(remaining, b) # Null

\* C21: whatever start() and stop() calls a binder gets, at most one interval
\* timer is live, and it is the one the binder holds the handle of; after a
\* start() exactly one is live and after a stop() none, and nothing else sets
\* or clears a timer, so a timer is live exactly when the last of these calls
\* was start(); a start() of a running binder sets no timer and dispatches
\* nothing; a start() of a binder that is not running dispatches exactly one
\* event, with the binder's unchanged activeIdx and remaining
C21_OneTimer ==
    /\ [](/\ Cardinality(timers) <= 1
          /\ timers = IF tickHandle = Null THEN {} ELSE {Val(tickHandle)})
    /\ [][ /\ op' = "start" => Cardinality(timers') = 1
           /\ op' = "stop" => timers' = {}
           /\ op' \notin {"start", "stop"} => timers' = timers
           /\ (op' = "start" /\ timers # {}) => (timers' = timers /\ events' = <<>>)
           /\ (op' = "start" /\ timers = {}) =>
                 /\ events' = << [activeIdx |-> activeIdx, remaining |-> remaining] >>
                 /\ activeIdx' = activeIdx
                 /\ remaining' = remaining
                 /\ sequences' = sequences ]_vars

\* start() was called on a binder that was running: one timer is live and
\* nothing was dispatched
C21_Witness ==
    /\ op = "start"
    /\ Cardinality(timers) = 1
    /\ events = <<>>

====
